---------------------------- MODULE Spec2Model ----------------------------
(***************************************************************************)
(* A model of the razz path tracer (razz_lib): the float/vector layer, the *)
(* ray/shape intersection routines, the material and texture pools, the   *)
(* recursive World::ray_color evaluator and the progressive / parallel     *)
(* renderers.                                                              *)
(*                                                                         *)
(* Floats (Float = f32) are modelled by exact extended rationals           *)
(* <<n, d>> in lowest terms with d >= 0; d = 0 holds the IEEE specials     *)
(* +inf = <<1,0>>, -inf = <<-1,0>>, NaN = <<0,0>>.  Rounding is not        *)
(* modelled: every statement below is about the real-number value of the   *)
(* expressions the code evaluates.  sqrt is evaluated on perfect squares   *)
(* only; the input sets are chosen so that no other argument occurs.       *)
(***************************************************************************)
EXTENDS Integers, Sequences, FiniteSets, TLC

VARIABLES
    \* ---- geometry harness: one intersection routine applied to one input
    g_kind,      \* which routine the input is for
    g_ray,       \* ray_in
    g_tmin,      \* t_min
    g_tmax,      \* t_max
    g_objs,      \* HittableList.objects (sphere inputs: a one-element list)
    g_box,       \* BoundingBox {min, max}
    g_box2,      \* the second BoundingBox of a union
    g_tri,       \* Triangle {v0, v1, v2, material_key}
    g_out,       \* the routine's return value, "pending" before the call
    \* ---- material / texture harness: scatter, emit, value on one input
    m_in,        \* [kind, material, texture, rec, ray, rng, textures]
    m_out,       \* the routine's return value, "pending" before the call
    \* ---- World::ray_color, one call executed frame by frame
    world,       \* [textures, materials, hittables]
    rc_ray0,     \* the ray of the outermost call
    rc_depth0,   \* the depth of the outermost call
    rc_rng0,     \* the generator state the outermost call starts with
    rc_pc,       \* "call" | "ret" | "done" | "panicked"
    rc_cur,      \* [ray, depth] of the innermost active call
    rc_stack,    \* suspended callers: <<[emitted, color, depth]>>
    rc_val,      \* value being returned
    rc_rng,      \* the generator state
    rc_queries,  \* number of hittables.hit queries made
    rc_calls,    \* number of nested (recursive) calls made
    \* ---- renderer
    variant,     \* "progressive" | "parallel"
    scene,       \* [world, sampler]
    width, height, max_ray_depth,
    image,       \* Image.data, a sequence of width*height*4 floats
    num_samples,
    r_pc,        \* "ready" | "panicked"; inside ParallelRenderer::render
                 \* executed step by step: "fork" | "collected" | "merged"
    frames,      \* history: the samples each completed render call contributed
    linears,     \* history: the sample_color values those samples came from
    image_buf,   \* the Vec backing image.data: 0 is the one Image::new
                 \* allocated, each Vec moved into image.data is the next
    p_rows,      \* the scanline tasks of the parallel phase, by row j
    p_img,       \* img_data, once collected
    resizes,     \* history: resize events of the application so far
    r_last,      \* history: the generator state handed to the last call of
                 \* ProgressiveRenderer::render
    \* ---- SimpleTexture::value, one call executed level by level
    tx_pool,     \* texture_map
    tx_root,     \* the key of the texture the outermost call evaluates
    tx_p,        \* the point p
    tx_cur,      \* self of the innermost active call
    tx_depth,    \* number of active calls of value
    tx_pc,       \* "call" | "done"
    tx_val,      \* the value returned
    \* ---- noise.rs: PerlinData::new and noise
    n_rng,       \* the generator state
    n_p,         \* the table p being permuted (generate_perm / permute)
    n_i,         \* the loop variable i of permute
    n_tables,    \* the tables returned so far: perm_x, perm_y, perm_z
    n_pc,        \* "new" | "permute" | "ready" | "sampled" | "panicked"
    n_point,     \* the argument of the last call of noise
    n_access,    \* the table indices that call computed, per lattice corner
    \* ---- gpu.rs: GpuState
    gp_frame_number,        \* frame_number
    gp_size,                \* size, as <<width, height>>
    gp_views,               \* render_data.render_texture_views: the textures
                            \* the two views were created from
    gp_compute_bind_groups, \* compute_data.compute_bind_groups
    gp_render_bind_groups,  \* render_data.render_bind_groups
    gp_made,                \* history: textures created so far
    gp_submitted,           \* history: the command buffers submitted since
                            \* the textures were last created
    gp_result,              \* what the last call of render returned
    \* ---- ProgressiveRenderer::render with f32 pixel values
    lr_self,     \* the renderer
    lr_scene,    \* the scene every call is given
    lr_rng,      \* the generator state handed to the last call
    lr_seen      \* history: per pixel, the outcomes of its camera rays

geomVars   == <<g_kind, g_ray, g_tmin, g_tmax, g_objs, g_box, g_box2, g_tri,
                g_out>>
matVars    == <<m_in, m_out>>
traceVars  == <<world, rc_ray0, rc_depth0, rc_rng0, rc_pc, rc_cur, rc_stack,
                rc_val, rc_rng, rc_queries, rc_calls>>
renderVars == <<variant, scene, width, height, max_ray_depth, image,
                num_samples, r_pc, frames, linears, image_buf, p_rows, p_img,
                resizes, r_last>>
texVars    == <<tx_pool, tx_root, tx_p, tx_cur, tx_depth, tx_pc, tx_val>>
noiseVars  == <<n_rng, n_p, n_i, n_tables, n_pc, n_point, n_access>>
coreVars   == <<geomVars, matVars, traceVars, renderVars>>
gpuVars    == <<gp_frame_number, gp_size, gp_views, gp_compute_bind_groups,
                gp_render_bind_groups, gp_made, gp_submitted, gp_result>>
longVars   == <<lr_self, lr_scene, lr_rng, lr_seen>>
restVars   == <<texVars, noiseVars, gpuVars, longVars>>
vars       == <<geomVars, matVars, traceVars, renderVars, restVars>>

-----------------------------------------------------------------------------
(* Float arithmetic: exact extended rationals.                              *)

Abs(n)  == IF n < 0 THEN -n ELSE n
Sign(n) == IF n < 0 THEN -1 ELSE IF n > 0 THEN 1 ELSE 0

RECURSIVE Gcd(_, _)
Gcd(a, b) == IF b = 0 THEN a ELSE Gcd(b, a % b)

Norm(n, d) ==
    IF d = 0 THEN <<Sign(n), 0>>
    ELSE LET g == Gcd(Abs(n), Abs(d))
             s == Sign(d)
         IN  <<(s * n) \div g, (s * d) \div g>>

R(n)       == <<n, 1>>
Frac(n, d) == Norm(n, d)
INFINITY   == <<1, 0>>
NEG_INFINITY == <<-1, 0>>
NaN        == <<0, 0>>
IsNaN(a)   == a = NaN
IsFinite(a) == a[2] # 0

RAdd(a, b) ==
    IF a[2] = 0 /\ b[2] = 0
    THEN (IF a = b THEN a ELSE NaN)
    ELSE Norm(a[1] * b[2] + b[1] * a[2], a[2] * b[2])
RNeg(a)    == <<-a[1], a[2]>>
RSub(a, b) == RAdd(a, RNeg(b))
RMul(a, b) == Norm(a[1] * b[1], a[2] * b[2])
RInv(a)    == IF a[1] < 0 THEN Norm(-a[2], -a[1]) ELSE Norm(a[2], a[1])
RDiv(a, b) == RMul(a, RInv(b))
RAbs(a)    == <<Abs(a[1]), a[2]>>

\* IEEE comparisons: every comparison with NaN is false.
RLt(a, b) ==
    IF IsNaN(a) \/ IsNaN(b) THEN FALSE
    ELSE IF a[2] = 0 /\ b[2] = 0 THEN a[1] < b[1]
    ELSE a[1] * b[2] < b[1] * a[2]
RGt(a, b) == RLt(b, a)
RLe(a, b) == ~IsNaN(a) /\ ~IsNaN(b) /\ (a = b \/ RLt(a, b))
RGe(a, b) == RLe(b, a)
RMin(a, b) == IF RLt(b, a) THEN b ELSE a
RMax(a, b) == IF RLt(a, b) THEN b ELSE a

IsSquare(n) == \E k \in 0..n : k * k = n
ISqrt(n)    == CHOOSE k \in 0..n : k * k = n
\* f32::sqrt, on the rationals whose root is rational.
RSqrt(a)    == IF a[1] < 0 THEN NaN ELSE <<ISqrt(a[1]), ISqrt(a[2])>>
HasRSqrt(a) == a[1] < 0 \/ (IsSquare(a[1]) /\ IsSquare(a[2]))

RECURSIVE RPowi(_, _)
RPowi(a, k) == IF k = 0 THEN R(1) ELSE RMul(a, RPowi(a, k - 1))

-----------------------------------------------------------------------------
(* glam::Vec3A                                                              *)

V3(x, y, z)   == <<R(x), R(y), R(z)>>
VZERO         == V3(0, 0, 0)
VONE          == V3(1, 1, 1)
VSplat(s)     == <<s, s, s>>
VAdd(a, b)    == <<RAdd(a[1], b[1]), RAdd(a[2], b[2]), RAdd(a[3], b[3])>>
VSub(a, b)    == <<RSub(a[1], b[1]), RSub(a[2], b[2]), RSub(a[3], b[3])>>
VNeg(a)       == <<RNeg(a[1]), RNeg(a[2]), RNeg(a[3])>>
VScale(s, a)  == <<RMul(s, a[1]), RMul(s, a[2]), RMul(s, a[3])>>
VDivS(a, s)   == <<RDiv(a[1], s), RDiv(a[2], s), RDiv(a[3], s)>>
VDot(a, b)    == RAdd(RAdd(RMul(a[1], b[1]), RMul(a[2], b[2])), RMul(a[3], b[3]))
VCross(a, b)  == <<RSub(RMul(a[2], b[3]), RMul(a[3], b[2])),
                   RSub(RMul(a[3], b[1]), RMul(a[1], b[3])),
                   RSub(RMul(a[1], b[2]), RMul(a[2], b[1]))>>
VMin(a, b)    == <<RMin(a[1], b[1]), RMin(a[2], b[2]), RMin(a[3], b[3])>>
VMax(a, b)    == <<RMax(a[1], b[1]), RMax(a[2], b[2]), RMax(a[3], b[3])>>
VLengthSquared(a) == VDot(a, a)
VLength(a)    == RSqrt(VLengthSquared(a))
VNormalize(a) == VScale(RInv(VLength(a)), a)

\* Ray::at
Ray_at(r, t) == VAdd(r.origin, VScale(t, r.direction))

-----------------------------------------------------------------------------
(* primative.rs: RaycastResult, HitRecord, sphere_hit, BoundingBox          *)

NullKey == 0     \* MaterialKey::default() / TextureKey::default(): the null key

Miss     == [tag |-> "Miss"]
Hit(rec) == [tag |-> "Hit", rec |-> rec]

HitRecord_default ==
    [point |-> VZERO, normal |-> VZERO, time |-> R(0),
     u |-> R(0), v |-> R(0), front_face |-> FALSE, material |-> NullKey]

(* RaycastResult::with_material *)
with_material(self, mat) ==
    IF self.tag = "Hit"
    THEN Hit([self.rec EXCEPT !.material = mat])
    ELSE self

(* set_front_face: returns (normal, front_face). *)
set_front_face_flipped(r, outward_normal) ==
    LET front_face == RLt(VDot(r.direction, outward_normal), R(0))
    IN  IF front_face
        THEN [normal |-> VNeg(outward_normal), front_face |-> front_face]
        ELSE [normal |-> outward_normal, front_face |-> front_face]

set_front_face(r, outward_normal) ==
    LET front_face == RLt(VDot(r.direction, outward_normal), R(0))
    IN  IF front_face
        THEN [normal |-> outward_normal, front_face |-> front_face]
        ELSE [normal |-> VNeg(outward_normal), front_face |-> front_face]

(* sphere_uv.  acos and atan2 are not evaluated: theta and phi are kept as  *)
(* terms over the arguments the code passes to acos and atan2.  No          *)
(* modelled routine computes with u or v (every texture ignores them).      *)
sphere_uv(normal) ==
    [u |-> [phi_atan2 |-> <<normal[3], normal[1]>>],
     v |-> [theta_acos |-> normal[2]]]

(* sphere_hit: the HitRecord built once the root is selected *)
sphere_hit_record(center, radius, r, root) ==
    LET point == Ray_at(r, root)
        outward_normal == VDivS(VSub(point, center), radius)
        ff == set_front_face(r, outward_normal)
        uv == sphere_uv(ff.normal)
    IN  Hit([point |-> point, normal |-> ff.normal, time |-> root,
             u |-> uv.u, v |-> uv.v, front_face |-> ff.front_face,
             material |-> NullKey])

(* sphere_hit, with the root selection of a plausible slip: the larger     *)
(* root is tried first.                                                     *)
sphere_hit_far_first(center, radius, r, t_min, t_max) ==
    LET oc     == VSub(r.origin, center)
        a      == VLengthSquared(r.direction)
        half_b == VDot(oc, r.direction)
        c      == RSub(VLengthSquared(oc), RMul(radius, radius))
        disc   == RSub(RMul(half_b, half_b), RMul(a, c))
    IN  IF RLt(disc, R(0)) THEN Miss
        ELSE
        LET sqrtd == RSqrt(disc)
            root1 == RDiv(RAdd(RNeg(half_b), sqrtd), a)
            root2 == RDiv(RSub(RNeg(half_b), sqrtd), a)
        IN  IF RLt(root1, t_min) \/ RLt(t_max, root1)
            THEN IF RLt(root2, t_min) \/ RLt(t_max, root2)
                 THEN Miss
                 ELSE sphere_hit_record(center, radius, r, root2)
            ELSE sphere_hit_record(center, radius, r, root1)

(* sphere_hit: the smaller root of the quadratic if it lies in             *)
(* [t_min, t_max], else the larger one if that does, else Miss.            *)
sphere_hit(center, radius, r, t_min, t_max) ==
    LET oc     == VSub(r.origin, center)
        a      == VLengthSquared(r.direction)
        half_b == VDot(oc, r.direction)
        c      == RSub(VLengthSquared(oc), RMul(radius, radius))
        disc   == RSub(RMul(half_b, half_b), RMul(a, c))
    IN  IF RLt(disc, R(0)) THEN Miss
        ELSE
        LET sqrtd == RSqrt(disc)
            root1 == RDiv(RSub(RNeg(half_b), sqrtd), a)
            root2 == RDiv(RAdd(RNeg(half_b), sqrtd), a)
        IN  IF RLt(root1, t_min) \/ RLt(t_max, root1)
            THEN IF RLt(root2, t_min) \/ RLt(t_max, root2)
                 THEN Miss
                 ELSE sphere_hit_record(center, radius, r, root2)
            ELSE sphere_hit_record(center, radius, r, root1)

(* impl Hittable for Primative: hit *)
Primative_hit(self, ray_in, t_min, t_max) ==
    with_material(sphere_hit(self.center, self.radius, ray_in, t_min, t_max),
                  self.material)

\* bounds with a plausible slip: the radius is added on one side only
Primative_bounds_half(self) ==
    [min |-> self.center, max |-> VAdd(self.center, VSplat(self.radius))]

(* impl Hittable for Primative: bounds *)
Primative_bounds(self) ==
    [min |-> VSub(self.center, VSplat(self.radius)),
     max |-> VAdd(self.center, VSplat(self.radius))]

(* impl Hittable for BoundingBox: hit.  One pass of the loop per axis a    *)
(* (1..3 here for the code's 0..3), returning early on the first miss.     *)
RECURSIVE BoundingBox_hit_loop(_, _, _, _, _, _, _)
BoundingBox_hit_loop(self, ray_in, t_min, t_max, loc_t_min, loc_t_max, a) ==
    IF a > 3 THEN Hit(HitRecord_default)
    ELSE
    LET inv_d == RInv(ray_in.direction[a])
        ta == RMul(RSub(self.min[a], ray_in.origin[a]), inv_d)
        tb == RMul(RSub(self.max[a], ray_in.origin[a]), inv_d)
        swap == RLt(inv_d, R(0))
        t0 == IF swap THEN tb ELSE ta
        t1 == IF swap THEN ta ELSE tb
        new_min == IF RGt(t0, t_min) THEN t0 ELSE loc_t_min
        new_max == IF RLt(t1, t_max) THEN t1 ELSE loc_t_max
    IN  IF RLe(new_max, new_min) THEN Miss
        ELSE BoundingBox_hit_loop(self, ray_in, t_min, t_max, new_min, new_max, a + 1)

(* The same loop without the swap for a negative direction component.      *)
RECURSIVE BoundingBox_hit_noswap(_, _, _, _, _, _, _)
BoundingBox_hit_noswap(self, ray_in, t_min, t_max, loc_t_min, loc_t_max, a) ==
    IF a > 3 THEN Hit(HitRecord_default)
    ELSE
    LET inv_d == RInv(ray_in.direction[a])
        t0 == RMul(RSub(self.min[a], ray_in.origin[a]), inv_d)
        t1 == RMul(RSub(self.max[a], ray_in.origin[a]), inv_d)
        new_min == IF RGt(t0, t_min) THEN t0 ELSE loc_t_min
        new_max == IF RLt(t1, t_max) THEN t1 ELSE loc_t_max
    IN  IF RLe(new_max, new_min) THEN Miss
        ELSE BoundingBox_hit_noswap(self, ray_in, t_min, t_max, new_min, new_max, a + 1)

BoundingBox_hit_mutant(self, ray_in, t_min, t_max) ==
    BoundingBox_hit_noswap(self, ray_in, t_min, t_max, t_min, t_max, 1)

BoundingBox_hit(self, ray_in, t_min, t_max) ==
    BoundingBox_hit_loop(self, ray_in, t_min, t_max, t_min, t_max, 1)

(* impl Hittable for BoundingBox: bounds *)
BoundingBox_bounds(self) == self

\* union with a plausible slip: max is taken with min
BoundingBox_union_min_max(box1, box2) ==
    [min |-> VMin(box1.min, box2.min), max |-> VMin(box1.max, box2.max)]

(* BoundingBox::union *)
BoundingBox_union(box1, box2) ==
    [min |-> VMin(box1.min, box2.min), max |-> VMax(box1.max, box2.max)]

-----------------------------------------------------------------------------
(* lib.rs: HittableList                                                     *)

(* HittableList::hit: the loop over self.objects from index i on, with the *)
(* running result and closest_time.                                        *)
RECURSIVE HittableList_hit_loop(_, _, _, _, _, _)
\* the body of the loop for object i, given its result h
HittableList_hit_body(objects, ray_in, t_min, i, result, closest_time, h) ==
    IF h.tag = "Hit"
    THEN HittableList_hit_loop(objects, ray_in, t_min, i + 1, h, h.rec.time)
    ELSE HittableList_hit_loop(objects, ray_in, t_min, i + 1, result, closest_time)
HittableList_hit_loop(objects, ray_in, t_min, i, result, closest_time) ==
    IF i > Len(objects) THEN result
    ELSE HittableList_hit_body(objects, ray_in, t_min, i, result, closest_time,
             Primative_hit(objects[i], ray_in, t_min, closest_time))

(* A first-hit list: the range is not narrowed, the first hit found wins.  *)
RECURSIVE HittableList_hit_first(_, _, _, _, _)
HittableList_hit_first(objects, ray_in, t_min, t_max, i) ==
    IF i > Len(objects) THEN Miss
    ELSE
    LET h == Primative_hit(objects[i], ray_in, t_min, t_max)
    IN  IF h.tag = "Hit" THEN h
        ELSE HittableList_hit_first(objects, ray_in, t_min, t_max, i + 1)

HittableList_hit_mutant(objects, ray_in, t_min, t_max) ==
    HittableList_hit_first(objects, ray_in, t_min, t_max, 1)

HittableList_hit(objects, ray_in, t_min, t_max) ==
    HittableList_hit_loop(objects, ray_in, t_min, 1, Miss, t_max)

(* impl HittableCollection for HittableList: push *)
HittableList_push(objects, obj) == Append(objects, obj)

(* HittableList::bounds *)
RECURSIVE HittableList_bounds_loop(_, _, _)
HittableList_bounds_loop(objects, i, bounds) ==
    IF i > Len(objects) THEN bounds
    ELSE HittableList_bounds_loop(objects, i + 1,
             BoundingBox_union(bounds, Primative_bounds(objects[i])))

HittableList_bounds(objects) ==
    HittableList_bounds_loop(objects, 1, [min |-> VZERO, max |-> VZERO])

-----------------------------------------------------------------------------
(* shape/mod.rs, shape/sphere.rs, shape/mesh.rs                             *)

\* Sphere::bounds; Bounds3A::new(min, max) of the boxtree crate holds the two
\* corners it is given
Sphere_bounds(self) ==
    [min |-> VSub(self.center, VSplat(self.radius)),
     max |-> VAdd(self.center, VSplat(self.radius))]

None          == [tag |-> "None"]
Some(t, rec)  == [tag |-> "Some", time |-> t, rec |-> rec]

(* get_face: returns (face, normal). *)
get_face(ray, normal) ==
    IF RLt(VDot(ray.direction, normal), R(0))
    THEN [face |-> "Front", normal |-> normal]
    ELSE [face |-> "Back", normal |-> VNeg(normal)]

(* impl RayHittable for Sphere: ray_hit *)
Sphere_ray_hit(self, ray, t_min, t_max) ==
    LET oc     == VSub(ray.origin, self.center)
        a      == VLengthSquared(ray.direction)
        half_b == VDot(oc, ray.direction)
        c      == RSub(VLengthSquared(oc), RMul(self.radius, self.radius))
        disc   == RSub(RMul(half_b, half_b), RMul(a, c))
    IN  IF RLt(disc, R(0)) THEN None
        ELSE
        LET sqrtd == RSqrt(disc)
            root1 == RDiv(RSub(RNeg(half_b), sqrtd), a)
            root2 == RDiv(RAdd(RNeg(half_b), sqrtd), a)
            out1  == RLt(root1, t_min) \/ RLt(t_max, root1)
            out2  == RLt(root2, t_min) \/ RLt(t_max, root2)
        IN  IF out1 /\ out2 THEN None
            ELSE
            LET root   == IF out1 THEN root2 ELSE root1
                point  == Ray_at(ray, root)
                normal == VDivS(VSub(point, self.center), self.radius)
                fn     == get_face(ray, normal)
                uv     == sphere_uv(fn.normal)
            IN  Some(root, [point |-> point, normal |-> fn.normal,
                            u |-> uv.u, v |-> uv.v, face |-> fn.face,
                            material_key |-> self.material])

(* impl RayHittable for Triangle: ray_hit (Moller-Trumbore) *)
Triangle_ray_hit(self, ray, t_min, t_max) ==
    LET v0v1 == VSub(self.v1, self.v0)
        v0v2 == VSub(self.v2, self.v0)
        pvec == VCross(ray.direction, v0v2)
        det  == VDot(v0v1, pvec)
    IN  IF RLt(RAbs(det), Frac(1, 10000)) THEN None
        ELSE
        LET inv_det == RInv(det)
            tvec == VSub(ray.origin, self.v0)
            u    == RMul(VDot(tvec, pvec), inv_det)
        IN  IF RLt(u, R(0)) \/ RGt(u, R(1)) THEN None
            ELSE
            LET qvec == VCross(tvec, v0v1)
                v    == RMul(VDot(ray.direction, qvec), inv_det)
            IN  IF RLt(v, R(0)) \/ RGt(RAdd(u, v), R(1)) THEN None
                ELSE
                LET time == RMul(VDot(v0v2, qvec), inv_det)
                IN  IF RLt(time, t_min) \/ RLt(t_max, time) THEN None
                    ELSE
                    LET point  == Ray_at(ray, time)
                        normal == VNormalize(VCross(v0v1, v0v2))
                        fn     == get_face(ray, normal)
                    IN  Some(time, [point |-> point, normal |-> fn.normal,
                                    u |-> u, v |-> v, face |-> fn.face,
                                    material_key |-> self.material_key])

-----------------------------------------------------------------------------
(* image.rs: Rgba (glam::Vec4)                                              *)

Rgba_new(r, g, b, a) == <<r, g, b, a>>
Rgba_ZERO     == Rgba_new(R(0), R(0), R(0), R(0))
Rgba_ONE      == Rgba_new(R(1), R(1), R(1), R(1))
Rgba_splat(v) == Rgba_new(v, v, v, v)
Rgba_add(a, b)   == [i \in 1..4 |-> RAdd(a[i], b[i])]
Rgba_mul(a, b)   == [i \in 1..4 |-> RMul(a[i], b[i])]
Rgba_scale(a, s) == [i \in 1..4 |-> RMul(a[i], s)]

\* the colour every failed texture lookup resolves to
Magenta == Rgba_new(R(1), R(0), R(1), R(1))

-----------------------------------------------------------------------------
(* The random generator.  A generator state is a non-empty sequence of      *)
(* draws read cyclically; a draw holds the value the next gen::<Vec3>()     *)
(* and the next gen::<Float>() return (both in [0, 1)).                     *)

Rng_vec3(rng)    == Head(rng).vec3
Rng_float(rng)   == Head(rng).f
Rng_advance(rng) == Tail(rng) \o <<Head(rng)>>

-----------------------------------------------------------------------------
(* texture.rs                                                               *)

SlotMap_contains(map, key) == key \in DOMAIN map

\* 355/113 exceeds pi by less than 3e-7; no argument of SinSign in the
\* input sets lies between k*pi and k*355/113.
PiUpper == Frac(355, 113)

\* the sign of sin(x) for rational x: sin(0) = 0, otherwise (-1)^k * sign(x)
\* where k counts the positive multiples of pi below |x|
SinSign(x) ==
    IF ~IsFinite(x) \/ x[1] = 0 THEN 0
    ELSE LET a == RAbs(x)
             k == Cardinality({m \in 1..(a[1] \div a[2]) :
                                  RLe(RMul(R(m), PiUpper), a)})
         IN  IF k % 2 = 0 THEN Sign(x[1]) ELSE -Sign(x[1])

(* SimpleTexture::value (Solid and Checker) *)
RECURSIVE SimpleTexture_value(_, _, _, _, _)
\* the Checker branches exchanged: odd where the product is not negative
SimpleTexture_value_swapped(self, u, v, p, texture_map) ==
    IF self.kind = "Solid" THEN self.color
    ELSE
    LET sines == SinSign(RMul(self.scale, p[1]))
                 * SinSign(RMul(self.scale, p[2]))
                 * SinSign(RMul(self.scale, p[3]))
    IN  IF sines < 0
        THEN IF SlotMap_contains(texture_map, self.even)
             THEN SimpleTexture_value(texture_map[self.even], u, v, p, texture_map)
             ELSE Magenta
        ELSE IF SlotMap_contains(texture_map, self.odd)
             THEN SimpleTexture_value(texture_map[self.odd], u, v, p, texture_map)
             ELSE Magenta

SimpleTexture_value(self, u, v, p, texture_map) ==
    IF self.kind = "Solid" THEN self.color
    ELSE \* Checker
    LET sines == SinSign(RMul(self.scale, p[1]))
                 * SinSign(RMul(self.scale, p[2]))
                 * SinSign(RMul(self.scale, p[3]))
    IN  IF sines < 0
        THEN IF SlotMap_contains(texture_map, self.odd)
             THEN SimpleTexture_value(texture_map[self.odd], u, v, p, texture_map)
             ELSE Magenta
        ELSE IF SlotMap_contains(texture_map, self.even)
             THEN SimpleTexture_value(texture_map[self.even], u, v, p, texture_map)
             ELSE Magenta

-----------------------------------------------------------------------------
(* material.rs                                                              *)

Scattered(ray_out, color) == [tag |-> "Scattered", ray_out |-> ray_out, color |-> color]
Absorbed == [tag |-> "Absorbed"]

\* f32::min: a NaN operand yields the other operand
Float_min(a, b) == IF IsNaN(a) THEN b ELSE IF IsNaN(b) THEN a ELSE RMin(a, b)

near_zero(v) ==
    LET ETA == Frac(1, 100000000)
    IN  RLt(RAbs(v[1]), ETA) /\ RLt(RAbs(v[2]), ETA) /\ RLt(RAbs(v[3]), ETA)

sample_unit_sphere(rng) ==
    [v   |-> VNormalize(VSub(Rng_vec3(rng), VScale(Frac(1, 2), VONE))),
     rng |-> Rng_advance(rng)]

reflect(v, n) == VSub(v, VScale(RMul(R(2), VDot(v, n)), n))

refract(v, n, eta) ==
    LET cos_theta == Float_min(VDot(VNeg(v), n), R(1))
        perp      == VScale(eta, VAdd(v, VScale(cos_theta, n)))
        parallel  == VScale(RNeg(RSqrt(RAbs(RSub(R(1), VLengthSquared(perp))))), n)
    IN  VAdd(perp, parallel)

reflectance(cosine, ref_idx) ==
    LET r0 == RDiv(RSub(R(1), ref_idx), RAdd(R(1), ref_idx))
        r1 == RMul(r0, r0)
    IN  RAdd(r1, RMul(RSub(R(1), r1), RPowi(RSub(R(1), cosine), 5)))

\* lambertian_scatter with a plausible slip: no fallback to the normal
lambertian_scatter_no_fallback(albedo, rec, texture_map, rng) ==
    LET s == sample_unit_sphere(rng)
    IN  [res |-> Scattered([origin |-> rec.point,
                            direction |-> VAdd(rec.normal, s.v)],
                    IF SlotMap_contains(texture_map, albedo)
                    THEN SimpleTexture_value(texture_map[albedo], rec.u, rec.v,
                                             rec.point, texture_map)
                    ELSE Magenta),
         rng |-> s.rng]

lambertian_scatter(albedo, rec, texture_map, rng) ==
    LET s    == sample_unit_sphere(rng)
        dir0 == VAdd(rec.normal, s.v)
        scatter_dir == IF near_zero(dir0) THEN rec.normal ELSE dir0
    IN  [res |-> Scattered([origin |-> rec.point, direction |-> scatter_dir],
                    IF SlotMap_contains(texture_map, albedo)
                    THEN SimpleTexture_value(texture_map[albedo], rec.u, rec.v,
                                             rec.point, texture_map)
                    ELSE Magenta),
         rng |-> s.rng]

(* metal_scatter, with a plausible slip: an albedo key that does not       *)
(* resolve absorbs the ray.                                                 *)
metal_scatter_strict(albedo, fuzz, ray_in, rec, texture_map, rng) ==
    LET reflected == reflect(VNormalize(ray_in.direction), rec.normal)
        s         == sample_unit_sphere(rng)
        scattered == [origin |-> rec.point,
                      direction |-> VAdd(reflected, VScale(fuzz, s.v))]
    IN  [res |-> IF RGt(VDot(scattered.direction, rec.normal), R(0))
                    /\ SlotMap_contains(texture_map, albedo)
                 THEN Scattered(scattered,
                        SimpleTexture_value(texture_map[albedo], rec.u, rec.v,
                                            rec.point, texture_map))
                 ELSE Absorbed,
         rng |-> s.rng]

metal_scatter(albedo, fuzz, ray_in, rec, texture_map, rng) ==
    LET reflected == reflect(VNormalize(ray_in.direction), rec.normal)
        s         == sample_unit_sphere(rng)
        scattered == [origin |-> rec.point,
                      direction |-> VAdd(reflected, VScale(fuzz, s.v))]
    IN  [res |-> IF RGt(VDot(scattered.direction, rec.normal), R(0))
                 THEN Scattered(scattered,
                        IF SlotMap_contains(texture_map, albedo)
                        THEN SimpleTexture_value(texture_map[albedo], rec.u, rec.v,
                                                 rec.point, texture_map)
                        ELSE Magenta)
                 ELSE Absorbed,
         rng |-> s.rng]

\* dielectric_scatter with a plausible slip: the Schlick test is left out
dielectric_scatter_no_fresnel(ir, ray_in, rec, rng) ==
    LET refraction_ratio == IF rec.front_face THEN RDiv(R(1), ir) ELSE ir
        unit_dir  == VNormalize(ray_in.direction)
        cos_theta == Float_min(VDot(VNeg(unit_dir), rec.normal), R(1))
        sin_theta == RSqrt(RSub(R(1), RMul(cos_theta, cos_theta)))
        cannot_refract == RGt(RMul(refraction_ratio, sin_theta), R(1))
        dir == IF cannot_refract
               THEN reflect(unit_dir, rec.normal)
               ELSE refract(unit_dir, rec.normal, refraction_ratio)
    IN  [res |-> Scattered([origin |-> rec.point, direction |-> dir], Rgba_ONE),
         rng |-> Rng_advance(rng)]

dielectric_scatter(ir, ray_in, rec, rng) ==
    LET refraction_ratio == IF rec.front_face THEN RDiv(R(1), ir) ELSE ir
        unit_dir  == VNormalize(ray_in.direction)
        cos_theta == Float_min(VDot(VNeg(unit_dir), rec.normal), R(1))
        sin_theta == RSqrt(RSub(R(1), RMul(cos_theta, cos_theta)))
        cannot_refract == RGt(RMul(refraction_ratio, sin_theta), R(1))
        angle_criteria == RGt(reflectance(cos_theta, refraction_ratio), Rng_float(rng))
        dir == IF cannot_refract \/ angle_criteria
               THEN reflect(unit_dir, rec.normal)
               ELSE refract(unit_dir, rec.normal, refraction_ratio)
    IN  [res |-> Scattered([origin |-> rec.point, direction |-> dir], Rgba_ONE),
         rng |-> Rng_advance(rng)]

(* SimpleMaterial::scatter *)
SimpleMaterial_scatter(self, ray_in, rec, texture_map, rng) ==
    CASE self.kind = "Lambertian" ->
             lambertian_scatter(self.albedo, rec, texture_map, rng)
      [] self.kind = "Metal" ->
             metal_scatter(self.albedo, self.fuzz, ray_in, rec, texture_map, rng)
      [] self.kind = "Dielectric" ->
             dielectric_scatter(self.ir, ray_in, rec, rng)
      [] self.kind = "DiffuseLight" ->
             [res |-> Absorbed, rng |-> rng]

\* emit with a plausible slip: a Lambertian surface emits its albedo
SimpleMaterial_emit_albedo(self, u, v, p, texture_map) ==
    IF self.kind \in {"DiffuseLight", "Lambertian"}
    THEN LET key == IF self.kind = "DiffuseLight" THEN self.emit ELSE self.albedo
         IN  IF SlotMap_contains(texture_map, key)
             THEN SimpleTexture_value(texture_map[key], u, v, p, texture_map)
             ELSE Magenta
    ELSE Rgba_ZERO

(* SimpleMaterial::emit *)
SimpleMaterial_emit(self, u, v, p, texture_map) ==
    IF self.kind = "DiffuseLight"
    THEN IF SlotMap_contains(texture_map, self.emit)
         THEN SimpleTexture_value(texture_map[self.emit], u, v, p, texture_map)
         ELSE Magenta
    ELSE Rgba_ZERO

Lambertian(albedo)   == [kind |-> "Lambertian", albedo |-> albedo]
Metal(albedo, fuzz)  == [kind |-> "Metal", albedo |-> albedo, fuzz |-> fuzz]
Dielectric(ir)       == [kind |-> "Dielectric", ir |-> ir]
DiffuseLight(emit)   == [kind |-> "DiffuseLight", emit |-> emit]
Solid(color)         == [kind |-> "Solid", color |-> color]
Checker(odd, even, scale) ==
    [kind |-> "Checker", odd |-> odd, even |-> even, scale |-> scale]
-----------------------------------------------------------------------------
(* lib.rs: World::ray_color                                                 *)

\* Option::expect on None: the thread panics with this message
Panic(msg)  == [panic |-> msg]
IsPanic(x)  == "panic" \in DOMAIN x

\* the intersection query, with a plausible slip: the search starts at 0
World_hit_from_zero(self, ray_in) ==
    HittableList_hit(self.hittables, ray_in, R(0), INFINITY)

\* the intersection query of ray_color
World_hit(self, ray_in) ==
    HittableList_hit(self.hittables, ray_in, Frac(1, 1000), INFINITY)

\* the Hit arm once the material is found: emit, then scatter
RayColor_material(material, textures, ray_in, rng, rec) ==
    [tag     |-> "Hit",
     emitted |-> SimpleMaterial_emit(material, rec.u, rec.v, rec.point, textures),
     scatter |-> SimpleMaterial_scatter(material, ray_in, rec, textures, rng)]

\* the match on the query's result, up to the nested call
RayColor_match(self, ray_in, rng, h) ==
    IF h.tag = "Miss" THEN [tag |-> "Miss"]
    ELSE IF ~SlotMap_contains(self.materials, h.rec.material)
    THEN [tag |-> "Panic"]
    ELSE RayColor_material(self.materials[h.rec.material], self.textures,
                           ray_in, rng, h.rec)

\* one activation of ray_color with depth > 0, up to the nested call
RayColor_step(self, ray_in, rng) ==
    RayColor_match(self, ray_in, rng, World_hit(self, ray_in))

\* emitted + color * (value of the nested call)
RayColor_combine(emitted, color, inner) ==
    IF IsPanic(inner) THEN inner
    ELSE [color |-> Rgba_add(emitted, Rgba_mul(color, inner.color)),
          rng   |-> inner.rng]

(* World::ray_color as the recursive function it is: the colour and the     *)
(* generator state it leaves, or the panic it raises.                       *)
RECURSIVE World_ray_color(_, _, _, _)
RECURSIVE RayColor_continue(_, _, _, _)
RayColor_continue(self, rng, depth, step) ==
    CASE step.tag = "Miss"  -> [color |-> Rgba_ONE, rng |-> rng]
      [] step.tag = "Panic" -> Panic("No material found!")
      [] step.tag = "Hit"   ->
           IF step.scatter.res.tag = "Scattered"
           THEN RayColor_combine(step.emitted, step.scatter.res.color,
                    World_ray_color(self, step.scatter.res.ray_out,
                                    step.scatter.rng, depth - 1))
           ELSE [color |-> step.emitted, rng |-> step.scatter.rng]

World_ray_color(self, ray_in, rng, depth) ==
    IF depth <= 0 THEN [color |-> Rgba_ZERO, rng |-> rng]
    ELSE RayColor_continue(self, rng, depth, RayColor_step(self, ray_in, rng))

-----------------------------------------------------------------------------
(* image.rs: gamma_correct and Image                                        *)

\* Rgba::gamma_correct: (self / num_samples).powf(gamma), for the integral
\* exponents the renderers pass (2.0)
Rgba_gamma_correct(self, n, gamma) ==
    [i \in 1..4 |-> RPowi(RDiv(self[i], R(n)), gamma)]

Image_new(w, h) ==
    [width |-> w, height |-> h, data |-> [k \in 1..(w * h * 4) |-> R(0)]]

\* data is indexed from 1 here: index i of the code is position i + 1
Image_set_pixel_color(self, x, y, color) ==
    LET index == self.width * y * 4 + x * 4
    IN  [self EXCEPT !.data = [k \in 1..Len(self.data) |->
            IF k \in (index + 1)..(index + 4) THEN color[k - index]
            ELSE self.data[k]]]

Image_get_pixel_color(self, x, y) ==
    LET index == self.width * y * 4 + x * 4
    IN  Rgba_new(self.data[index + 1], self.data[index + 2],
                 self.data[index + 3], self.data[index + 4])

-----------------------------------------------------------------------------
(* sampler.rs: BasicCamera                                                  *)

\* BasicCamera::new, with h = tan(vfov / 2) given
BasicCamera_new(from, at, h, ar, aperture, focus_dist) ==
    LET viewport_height == RMul(R(2), h)
        viewport_width  == RMul(ar, viewport_height)
        w == VNormalize(VSub(from, at))
        u == VNormalize(VCross(V3(0, 1, 0), w))
        v == VCross(w, u)
        horizontal == VScale(RMul(focus_dist, viewport_width), u)
        vertical   == VScale(RMul(focus_dist, viewport_height), v)
    IN  [origin |-> from, horizontal |-> horizontal, vertical |-> vertical,
         top_right |-> VSub(VAdd(VSub(from, VScale(Frac(1, 2), horizontal)),
                                 VScale(Frac(1, 2), vertical)),
                            VScale(focus_dist, w)),
         lens_radius |-> RMul(Frac(1, 2), aperture), ar |-> ar,
         u |-> u, v |-> v, w |-> w]

\* the ray through (u, v) of the viewport
BasicCamera_ray(self, u, v) ==
    [origin |-> self.origin,
     direction |-> VSub(VSub(VAdd(self.top_right, VScale(u, self.horizontal)),
                             VScale(v, self.vertical)),
                        self.origin)]

\* get_ray with the two draws exchanged: the first for v, the second for u
BasicCamera_get_ray_swapped(self, pixel_x, pixel_y, w, h, rng) ==
    [ray |-> BasicCamera_ray(self,
                 RDiv(RAdd(R(pixel_x), Rng_float(Rng_advance(rng))), R(w - 1)),
                 RDiv(RAdd(R(pixel_y), Rng_float(rng)), R(h - 1))),
     rng |-> Rng_advance(Rng_advance(rng))]

\* Sampler::get_ray: two Float draws, the first for u and the second for v
BasicCamera_get_ray(self, pixel_x, pixel_y, w, h, rng) ==
    [ray |-> BasicCamera_ray(self,
                 RDiv(RAdd(R(pixel_x), Rng_float(rng)), R(w - 1)),
                 RDiv(RAdd(R(pixel_y), Rng_float(Rng_advance(rng))), R(h - 1))),
     rng |-> Rng_advance(Rng_advance(rng))]

-----------------------------------------------------------------------------
(* render.rs.  A renderer is [width, height, max_ray_depth, image,          *)
(* num_samples].  render returns the renderer it leaves, the samples of the *)
(* frame (pixel_rgb of every pixel, flattened), the sample_color values     *)
(* they were computed from (linear), whether the call panicked, and whether *)
(* a new Vec was moved into image.data.                                     *)

Renderer_new(w, h, d) ==
    [width |-> w, height |-> h, max_ray_depth |-> d,
     image |-> Image_new(w, h), num_samples |-> 0]

\* sample_color of pixel (i, j), or the panic
Renderer_trace(self, sc, s) ==
    World_ray_color(sc.world, s.ray, s.rng, self.max_ray_depth)
Renderer_sample(self, sc, i, j, rng) ==
    Renderer_trace(self, sc,
        BasicCamera_get_ray(sc.sampler, i, j, self.width, self.height, rng))

\* the values collected so far: pixel_rgb (data) and sample_color (linear)
Renderer_none == [data |-> <<>>, linear |-> <<>>]
Renderer_push(acc, sample_color) ==
    [data   |-> acc.data \o Rgba_gamma_correct(sample_color, 1, 2),
     linear |-> acc.linear \o sample_color]

\* the running mean, with a plausible slip: old and new weigh the same
Renderer_mean_halves(old, n, new) ==
    RMul(RAdd(old, new), RDiv(R(1), R(2)))

\* (old * n + new) * (1.0 / (n + 1.0))
Renderer_mean(old, n, new) ==
    RMul(RAdd(RMul(old, R(n)), new), RDiv(R(1), RAdd(R(n), R(1))))

\* ProgressiveRenderer::render, lines 36-43: blend pixel_rgb into pixel (i, j)
ProgressiveRenderer_blend(self, i, j, pixel_rgb) ==
    IF self.num_samples = 0
    THEN [self EXCEPT !.image = Image_set_pixel_color(self.image, i, j, pixel_rgb)]
    ELSE [self EXCEPT !.image = Image_set_pixel_color(self.image, i, j,
            [c \in 1..4 |-> Renderer_mean(Image_get_pixel_color(self.image, i, j)[c],
                                          self.num_samples, pixel_rgb[c])])]

(* ProgressiveRenderer::render: pixel k of the row-major pass is            *)
(* (i, j) = (k % width, k \div width).                                      *)
RECURSIVE ProgressiveRenderer_loop(_, _, _, _, _)
ProgressiveRenderer_pixel(self, sc, k, samples, c) ==
    IF IsPanic(c)
    THEN [self |-> self, samples |-> samples.data, linear |-> samples.linear,
          panicked |-> TRUE, moved |-> FALSE]
    ELSE ProgressiveRenderer_loop(
             ProgressiveRenderer_blend(self, k % self.width, k \div self.width,
                                       Rgba_gamma_correct(c.color, 1, 2)),
             sc, c.rng, k + 1, Renderer_push(samples, c.color))
ProgressiveRenderer_loop(self, sc, rng, k, samples) ==
    IF k = self.width * self.height
    THEN [self |-> [self EXCEPT !.num_samples = @ + 1],
          samples |-> samples.data, linear |-> samples.linear,
          panicked |-> FALSE, moved |-> FALSE]
    ELSE ProgressiveRenderer_pixel(self, sc, k, samples,
             Renderer_sample(self, sc, k % self.width, k \div self.width, rng))

ProgressiveRenderer_render(self, sc, rng) ==
    ProgressiveRenderer_loop(self, sc, rng, 0, Renderer_none)

(* ParallelRenderer::render.  Row j is computed with its own generator      *)
(* rngs[j]; a panic in a row is a panic of the call.  The rows and the      *)
(* collected img_data are [data |-> floats, linear |-> floats], or the      *)
(* panic.                                                                   *)
RECURSIVE ParallelRenderer_row(_, _, _, _, _, _)
ParallelRenderer_row_pixel(self, sc, j, i, acc, c) ==
    IF IsPanic(c) THEN c
    ELSE ParallelRenderer_row(self, sc, j, i + 1, c.rng,
                              Renderer_push(acc, c.color))
ParallelRenderer_row(self, sc, j, i, rng, acc) ==
    IF i = self.width THEN acc
    ELSE ParallelRenderer_row_pixel(self, sc, j, i, acc,
                                    Renderer_sample(self, sc, i, j, rng))

RECURSIVE ParallelRenderer_collect(_, _, _, _, _)
ParallelRenderer_collect_row(self, sc, rngs, j, acc, row) ==
    IF IsPanic(row) THEN row
    ELSE ParallelRenderer_collect(self, sc, rngs, j + 1,
             [data |-> acc.data \o row.data, linear |-> acc.linear \o row.linear])
ParallelRenderer_collect(self, sc, rngs, j, acc) ==
    IF j = self.height THEN acc
    ELSE ParallelRenderer_collect_row(self, sc, rngs, j, acc,
             ParallelRenderer_row(self, sc, j, 0, rngs[j], Renderer_none))

\* the merge with a plausible slip: the divisor is n, not n + 1
ParallelRenderer_merge_over_n(self, img_data) ==
    IF IsPanic(img_data)
    THEN [self |-> self, samples |-> <<>>, linear |-> <<>>,
          panicked |-> TRUE, moved |-> FALSE]
    ELSE [self |-> [self EXCEPT
                      !.image.data =
                          IF self.num_samples = 0 THEN img_data.data
                          ELSE [k \in 1..Len(self.image.data) |->
                                   RMul(RAdd(RMul(self.image.data[k], R(self.num_samples)),
                                             img_data.data[k]),
                                        RDiv(R(1), R(self.num_samples)))],
                      !.num_samples = @ + 1],
          samples |-> img_data.data, linear |-> img_data.linear,
          panicked |-> FALSE, moved |-> (self.num_samples = 0)]

\* lines 97-112: merge img_data into the image
ParallelRenderer_merge(self, img_data) ==
    IF IsPanic(img_data)
    THEN [self |-> self, samples |-> <<>>, linear |-> <<>>,
          panicked |-> TRUE, moved |-> FALSE]
    ELSE [self |-> [self EXCEPT
                      !.image.data =
                          IF self.num_samples = 0 THEN img_data.data
                          ELSE [k \in 1..Len(self.image.data) |->
                                   IF k <= Len(img_data.data)
                                   THEN Renderer_mean(self.image.data[k],
                                                      self.num_samples,
                                                      img_data.data[k])
                                   ELSE self.image.data[k]],
                      !.num_samples = @ + 1],
          samples |-> img_data.data, linear |-> img_data.linear,
          panicked |-> FALSE, moved |-> (self.num_samples = 0)]

ParallelRenderer_render(self, sc, rngs) ==
    ParallelRenderer_merge(self, ParallelRenderer_collect(self, sc, rngs, 0, Renderer_none))
-----------------------------------------------------------------------------
(* noise.rs: PerlinData.  A table [usize; 256] is a sequence of 256 values, *)
(* entry k of the code at position k + 1.  The ranvec table and the         *)
(* interpolated value are not modelled, only the table indices.             *)

POINT_COUNT == 256

\* bit b of the two's complement representation of the integer n
BitOf(n, b) == (n \div (2 ^ b)) % 2
\* n & mask for a mask of the low bits 0 .. bits-1 set
RECURSIVE BitAndLow(_, _)
BitAndLow(n, bits) ==
    IF bits = 0 THEN 0
    ELSE BitAndLow(n, bits - 1) + BitOf(n, bits - 1) * (2 ^ (bits - 1))
\* the number of low bits set in POINT_COUNT - 1 = 255
MaskBits == CHOOSE b \in 0..16 : 2 ^ b = POINT_COUNT
\* a ^ b on usize values
RECURSIVE BitXor(_, _)
BitXor(a, b) ==
    IF a = 0 /\ b = 0 THEN 0
    ELSE (((a % 2) + (b % 2)) % 2) + 2 * BitXor(a \div 2, b \div 2)

\* x.floor() as isize: the cast saturates and sends NaN to 0.  An isize is
\* [sat, v]: the value v, or one of the two extremes of the type
Floor_as_isize(x) ==
    IF IsNaN(x) THEN [sat |-> "no", v |-> 0]
    ELSE IF x = INFINITY THEN [sat |-> "MAX", v |-> 0]
    ELSE IF x = NEG_INFINITY THEN [sat |-> "MIN", v |-> 0]
    ELSE [sat |-> "no", v |-> x[1] \div x[2]]

\* i + d as isize overflows
AddOverflows(i, d) == i.sat = "MAX" /\ d = 1
\* ((i + d) & 255) as usize; isize::MAX = 0111..1, isize::MIN = 1000..0, and
\* the sum isize::MAX + 1 wraps to isize::MIN where overflow is not checked
LatticeIndex(i, d) ==
    IF i.sat = "MAX" THEN (IF d = 0 THEN POINT_COUNT - 1 ELSE 0)
    ELSE IF i.sat = "MIN" THEN d
    ELSE BitAndLow(i.v + d, MaskBits)

\* index idx is inside table perm
Table_has(perm, idx) == idx \in 0..(Len(perm) - 1)

\* noise, lines 64-79: for each corner (di, dj, dk) the indices into perm_x,
\* perm_y and perm_z, and the index into ranvec (iv) computed from the
\* entries read when those three indices are inside their tables
PerlinData_noise_corner(self, di, dj, dk, ix, iy, iz) ==
    [corner |-> <<di, dj, dk>>, ix |-> ix, iy |-> iy, iz |-> iz,
     read |-> Table_has(self.perm_x, ix) /\ Table_has(self.perm_y, iy)
                 /\ Table_has(self.perm_z, iz),
     iv |-> IF Table_has(self.perm_x, ix) /\ Table_has(self.perm_y, iy)
                 /\ Table_has(self.perm_z, iz)
            THEN BitXor(BitXor(self.perm_x[ix + 1], self.perm_y[iy + 1]),
                        self.perm_z[iz + 1])
            ELSE 0]

PerlinData_noise_indices(self, p) ==
    LET i == Floor_as_isize(p[1])
        j == Floor_as_isize(p[2])
        k == Floor_as_isize(p[3])
    IN  {PerlinData_noise_corner(self, di, dj, dk, LatticeIndex(i, di),
                                 LatticeIndex(j, dj), LatticeIndex(k, dk)) :
            di \in {0, 1}, dj \in {0, 1}, dk \in {0, 1}}

\* some i + d of the call overflows isize
PerlinData_noise_overflows(p) ==
    \E c \in 1..3 : AddOverflows(Floor_as_isize(p[c]), 1)

\* generate_perm, lines 86-87: the identity table
Perm_identity == [k \in 1..POINT_COUNT |-> k - 1]

\* the loop body with a plausible slip: p[target] is not written back
permute_body_overwrite(p, i, target) ==
    [p EXCEPT ![i + 1] = p[target + 1]]

\* permute, lines 97-99: exchange p[i] and p[target]
permute_body(p, i, target) ==
    [p EXCEPT ![i + 1] = p[target + 1], ![target + 1] = p[i + 1]]
-----------------------------------------------------------------------------
(* gpu.rs: GpuState.  A texture is the number of textures created before    *)
(* it; a view stands for the texture it was created from.  The arrays of    *)
(* two are functions on 0..1, as the code indexes them.                     *)

\* make_render_textures: two new textures and a view of each
GpuState_make_render_textures(made) == [i \in 0..1 |-> made + i]

\* lines 72-89, 367-388: bind group g shows view g
GpuState_render_bind_groups(views) == [g \in 0..1 |-> [texture |-> views[g]]]

\* lines 120-161, 390-431: binding 0 is the output texture, binding 1 the
\* input texture
GpuState_compute_bind_groups(views) ==
    [g \in 0..1 |->
        IF g = 0 THEN [output |-> views[0], input |-> views[1]]
        ELSE [output |-> views[1], input |-> views[0]]]

\* the command buffer render records, lines 453-491
GpuState_encode(self) ==
    [frame_number |-> self.frame_number,
     compute |-> [bind_group |-> self.compute_bind_groups[self.frame_number % 2],
                  dispatch |-> <<(self.size[1] + 31) \div 32,
                                 (self.size[2] + 31) \div 32, 1>>],
     render  |-> [bind_group |-> self.render_bind_groups[self.frame_number % 2]]]

\* render that counts the call before it acquires the frame
GpuState_render_counts_first(self, frame) ==
    IF frame # "Ok"
    THEN [self |-> [self EXCEPT !.frame_number = @ + 1], submitted |-> <<>>,
          result |-> frame]
    ELSE [self |-> [self EXCEPT !.frame_number = @ + 1],
          submitted |-> <<GpuState_encode(self)>>, result |-> "Ok"]

\* GpuState::render, with what get_current_frame returned: the ? of line 465
\* returns the error, and the encoder is dropped with the compute pass in it
GpuState_render(self, frame) ==
    IF frame # "Ok"
    THEN [self |-> self, submitted |-> <<>>, result |-> frame]
    ELSE [self |-> [self EXCEPT !.frame_number = @ + 1],
          submitted |-> <<GpuState_encode(self)>>, result |-> "Ok"]

\* GpuState::resize: new textures, views and bind groups
GpuState_resize(self, new_size, made) ==
    [self EXCEPT !.size = new_size,
                 !.views = GpuState_make_render_textures(made),
                 !.render_bind_groups =
                     GpuState_render_bind_groups(GpuState_make_render_textures(made)),
                 !.compute_bind_groups =
                     GpuState_compute_bind_groups(GpuState_make_render_textures(made))]
-----------------------------------------------------------------------------
(* Float = f32 (lib.rs line 25) with its rounding.  A finite non-negative   *)
(* f32 is <<m, e>>, the value m * 2^e with 2^23 <= m < 2^24, or <<0, 0>>.   *)
(* Every operation is the exact result rounded to the nearest such value,   *)
(* ties to the even significand, as IEEE 754 and so the hardware has it.    *)
(* The values are those of a pixel of the image: between 0 and the number   *)
(* of render calls, far from the ends of the exponent range.                *)

F32_ZERO == <<0, 0>>
F32_ONE  == <<2 ^ 23, -23>>

\* the number of binary digits of M < 2^30
F32_digits(M) == CHOOSE b \in 0..30 : M < 2 ^ b /\ (b = 0 \/ 2 ^ (b - 1) <= M)

\* M * 2^e, with sticky when the exact value lies above it by less than 2^e
F32_shift(M, e, sticky, k) ==
    LET q    == M \div (2 ^ k)
        rem  == M % (2 ^ k)
        half == 2 ^ (k - 1)
        m    == IF rem > half \/ (rem = half /\ (sticky \/ q % 2 = 1))
                THEN q + 1 ELSE q
    IN  IF m = 2 ^ 24 THEN <<2 ^ 23, e + k + 1>> ELSE <<m, e + k>>
F32_round(M, e, sticky) ==
    IF M = 0 THEN F32_ZERO
    ELSE IF F32_digits(M) <= 24
         THEN <<M * 2 ^ (24 - F32_digits(M)), e - (24 - F32_digits(M))>>
         ELSE F32_shift(M, e, sticky, F32_digits(M) - 24)

\* n as Float, for n < 2^24
F32_from_usize(n) == F32_round(n, 0, FALSE)
\* a rational n/d of the model that f32 holds exactly: 0 <= n < 64, d a
\* power of two up to 2^24
F32_from_rational(r) ==
    IF r[1] = 0 THEN F32_ZERO
    ELSE F32_round((r[1] * 2 ^ 24) \div r[2], -24, (r[1] * 2 ^ 24) % r[2] # 0)

\* a + b, the exponents at most five apart
F32_add(a, b) ==
    IF a = F32_ZERO THEN b
    ELSE IF b = F32_ZERO THEN a
    ELSE LET e == IF a[2] < b[2] THEN a[2] ELSE b[2]
         IN  F32_round(a[1] * 2 ^ (a[2] - e) + b[1] * 2 ^ (b[2] - e), e, FALSE)

\* a * b: the 48-digit product a[1] * b[1] as H * 2^24 + L
F32_mul(a, b) ==
    IF a = F32_ZERO \/ b = F32_ZERO THEN F32_ZERO
    ELSE LET ah == a[1] \div (2 ^ 12)
             al == a[1] % (2 ^ 12)
             bh == b[1] \div (2 ^ 12)
             bl == b[1] % (2 ^ 12)
             t1 == ah * bl + al * bh
             lo == al * bl + (t1 % (2 ^ 12)) * (2 ^ 12)
             H  == ah * bh + t1 \div (2 ^ 12) + lo \div (2 ^ 24)
             L  == lo % (2 ^ 24)
         IN  IF H >= 2 ^ 23
             THEN F32_shift(2 * H + L \div (2 ^ 23), a[2] + b[2] + 23,
                            L % (2 ^ 23) # 0, 1)
             ELSE F32_shift(4 * H + L \div (2 ^ 22), a[2] + b[2] + 22,
                            L % (2 ^ 22) # 0, 1)

\* 1.0 / b for b a whole number from 2 to 64
F32_recip(b) ==
    LET k == b[1] \div (2 ^ (-b[2]))
    IN  F32_round((2 ^ 30) \div k, -30, (2 ^ 30) % k # 0)

\* (old * n + new) * (1.0 / (n + 1.0)) in f32
Renderer_mean_f32(old, n, new) ==
    F32_mul(F32_add(F32_mul(old, F32_from_usize(n)), new),
            F32_recip(F32_add(F32_from_usize(n), F32_ONE)))

-----------------------------------------------------------------------------
(* ProgressiveRenderer::render with the f32 values the image holds.  The    *)
(* colours ray_color returns are the exact ones of the model; pixel_rgb is  *)
(* stored as f32.  render returns the renderer it leaves, the generator     *)
(* state it leaves, per pixel whether the camera ray hit an object, and     *)
(* whether the call panicked.                                               *)

Rgba_to_f32(color) == [c \in 1..4 |-> F32_from_rational(color[c])]

Renderer_new_f32(w, h, d) ==
    [width |-> w, height |-> h, max_ray_depth |-> d,
     image |-> [width |-> w, height |-> h,
                data |-> [k \in 1..(w * h * 4) |-> F32_ZERO]],
     num_samples |-> 0]

\* lines 36-43
ProgressiveRenderer_blend_f32(self, i, j, pixel_rgb) ==
    IF self.num_samples = 0
    THEN [self EXCEPT !.image = Image_set_pixel_color(self.image, i, j, pixel_rgb)]
    ELSE [self EXCEPT !.image = Image_set_pixel_color(self.image, i, j,
            [c \in 1..4 |->
                Renderer_mean_f32(Image_get_pixel_color(self.image, i, j)[c],
                                  self.num_samples, pixel_rgb[c])])]

RECURSIVE ProgressiveRenderer_loop_f32(_, _, _, _, _)
ProgressiveRenderer_pixel_f32(self, sc, k, hits, s, c) ==
    IF IsPanic(c)
    THEN [self |-> self, rng |-> s.rng, hits |-> hits, panicked |-> TRUE]
    ELSE ProgressiveRenderer_loop_f32(
             ProgressiveRenderer_blend_f32(self, k % self.width, k \div self.width,
                 Rgba_to_f32(Rgba_gamma_correct(c.color, 1, 2))),
             sc, c.rng, k + 1,
             Append(hits, World_hit(sc.world, s.ray).tag # "Miss"))
ProgressiveRenderer_sampled_f32(self, sc, k, hits, s) ==
    ProgressiveRenderer_pixel_f32(self, sc, k, hits, s, Renderer_trace(self, sc, s))
ProgressiveRenderer_loop_f32(self, sc, rng, k, hits) ==
    IF k = self.width * self.height
    THEN [self |-> [self EXCEPT !.num_samples = @ + 1], rng |-> rng,
          hits |-> hits, panicked |-> FALSE]
    ELSE ProgressiveRenderer_sampled_f32(self, sc, k, hits,
             BasicCamera_get_ray(sc.sampler, k % self.width, k \div self.width,
                                 self.width, self.height, rng))

ProgressiveRenderer_render_f32(self, sc, rng) ==
    ProgressiveRenderer_loop_f32(self, sc, rng, 0, <<>>)
-----------------------------------------------------------------------------
(* Geometry harness: Init draws one input, one action applies the routine. *)

MaxCoord == 3    \* ray origins lie on the integer lattice within this range
MaxTime  == 3    \* finite t_min / t_max values are integers up to this
MaxObjs  == 3    \* longest HittableList

Pending == [tag |-> "pending"]

NoRay  == [origin |-> VZERO, direction |-> VZERO]
NoBox  == [min |-> VZERO, max |-> VZERO]
NoTri  == [v0 |-> VZERO, v1 |-> VZERO, v2 |-> VZERO, material_key |-> NullKey]

MkSphere(cx, r, m) == [center |-> V3(cx, 0, 0), radius |-> R(r), material |-> m]

\* (-half_b)^2 - a*c of the sphere quadratic for sphere sp and ray r
Discriminant(sp, r) ==
    LET oc     == VSub(r.origin, sp.center)
        a      == VLengthSquared(r.direction)
        half_b == VDot(oc, r.direction)
        c      == RSub(VLengthSquared(oc), RMul(sp.radius, sp.radius))
    IN  RSub(RMul(half_b, half_b), RMul(a, c))

SphereOrigins == {V3(x, y, 0) : x \in -MaxCoord..MaxCoord, y \in {0, 1}}
SphereDirections ==
    {V3(1, 0, 0), V3(-1, 0, 0), V3(2, 0, 0), V3(0, 1, 0), V3(1, 1, 0), V3(3, 4, 0)}
SphereRays == {[origin |-> o, direction |-> d] : o \in SphereOrigins, d \in SphereDirections}
\* a negative radius is the usual hollow-sphere trick: the outward normal points inwards
Spheres == {MkSphere(0, 1, 1), MkSphere(0, 2, 2), MkSphere(2, 1, 3), MkSphere(0, -1, 1)}
TMins == {R(0), Frac(1, 1000)} \cup {R(k) : k \in 1..MaxTime}
TMaxs == {R(k) : k \in 1..MaxTime} \cup {INFINITY}

ListObjects == {MkSphere(0, 1, 1), MkSphere(0, 2, 2), MkSphere(2, 1, 3)}
ListRays ==
    {[origin |-> o, direction |-> d] :
        o \in SphereOrigins, d \in {V3(1, 0, 0), V3(-1, 0, 0), V3(1, 1, 0)}}
ObjectLists == UNION {[1..n -> ListObjects] : n \in 0..MaxObjs}
ListRanges ==
    {<<Frac(1, 1000), INFINITY>>, <<R(0), R(MaxTime)>>,
     <<R(MaxTime - 1), INFINITY>>, <<R(1), R(MaxTime)>>}

Boxes == {[min |-> V3(-1, -1, -1), max |-> V3(1, 1, 1)],
          [min |-> V3(0, -1, -2),  max |-> V3(2, 1, 0)]}
BoxOrigins == {V3(x, y, z) : x \in -MaxCoord..MaxCoord, y \in {-2, 0}, z \in {-2, -1, 0}}
BoxDirections ==
    {V3(x, y, z) : x \in {-1, 1, 2}, y \in {-1, 1, 2}, z \in {-1, 1, 2}}
        \cup {V3(1, 0, 0)}
BoxRays == {[origin |-> o, direction |-> d] : o \in BoxOrigins, d \in BoxDirections}
BoxRanges ==
    {<<R(0), R(2)>>, <<R(0), INFINITY>>, <<R(1), R(2)>>,
     <<R(1), INFINITY>>, <<R(MaxTime), INFINITY>>, <<Frac(1, 1000), INFINITY>>}

Triangles ==
    {[v0 |-> V3(0, 0, 0), v1 |-> V3(2, 0, 0), v2 |-> V3(0, 2, 0), material_key |-> 1],
     [v0 |-> V3(0, 0, 0), v1 |-> V3(0, 2, 0), v2 |-> V3(2, 0, 0), material_key |-> 2],
     [v0 |-> V3(0, 0, 0), v1 |-> V3(0, 3, 0), v2 |-> V3(0, 0, 3), material_key |-> 3]}
TriOrigins == {V3(x, y, z) : x \in -1..MaxCoord, y \in {0, 1}, z \in {-2, 1}}
TriDirections ==
    {V3(0, 0, 1), V3(0, 0, -1), V3(0, 0, -2), V3(1, 0, -1), V3(-1, 0, 1), V3(1, 0, 0)}
TriRays == {[origin |-> o, direction |-> d] : o \in TriOrigins, d \in TriDirections}

\* spheres on and off the axes; the second and third do not contain the origin
BoundObjects ==
    {MkSphere(0, 1, 1), MkSphere(2, 1, 3),
     [center |-> V3(-MaxCoord, 2, -2), radius |-> Frac(1, 2), material |-> 2],
     [center |-> V3(1, 1, 1), radius |-> R(0), material |-> 1]}
BoundLists == UNION {[1..n -> BoundObjects] : n \in 0..MaxObjs}
\* boxes with finite and infinite corners, one of them with min above max
UnionBoxes ==
    {[min |-> V3(x, -1, -1), max |-> V3(x + 2, 1, 1)] : x \in -MaxCoord..MaxCoord} \cup
    {[min |-> V3(0, y, -2), max |-> V3(2, y + 1, 0)] : y \in -MaxTime..MaxTime} \cup
    {[min |-> V3(1, 1, 1), max |-> V3(-1, -1, -1)],
     [min |-> <<NEG_INFINITY, R(0), R(0)>>, max |-> <<R(0), INFINITY, R(1)>>],
     [min |-> VZERO, max |-> VZERO]}

GeomInit ==
    /\ g_out = Pending
    /\ \/ /\ g_kind \in {"Primative", "Sphere"}
          /\ g_ray \in SphereRays
          /\ g_objs \in {<<sp>> : sp \in Spheres}
          /\ HasRSqrt(Discriminant(g_objs[1], g_ray))
          /\ g_tmin \in TMins
          /\ g_tmax \in TMaxs
          /\ g_box = NoBox /\ g_box2 = NoBox /\ g_tri = NoTri
       \/ /\ g_kind = "HittableList"
          /\ g_ray \in ListRays
          /\ g_objs \in ObjectLists
          /\ \A i \in 1..Len(g_objs) : HasRSqrt(Discriminant(g_objs[i], g_ray))
          /\ \E rg \in ListRanges : g_tmin = rg[1] /\ g_tmax = rg[2]
          /\ g_box = NoBox /\ g_box2 = NoBox /\ g_tri = NoTri
       \/ /\ g_kind = "BoundingBox"
          /\ g_ray \in BoxRays
          /\ g_box \in Boxes
          /\ \E rg \in BoxRanges : g_tmin = rg[1] /\ g_tmax = rg[2]
          /\ g_objs = <<>> /\ g_box2 = NoBox /\ g_tri = NoTri
       \/ /\ g_kind = "ListBounds"
          /\ g_objs \in BoundLists
          /\ g_ray = NoRay /\ g_tmin = R(0) /\ g_tmax = R(0)
          /\ g_box = NoBox /\ g_box2 = NoBox /\ g_tri = NoTri
       \/ /\ g_kind \in {"PrimativeBounds", "SphereBounds"}
          /\ g_objs \in {<<sp>> : sp \in Spheres \cup BoundObjects}
          /\ g_ray = NoRay /\ g_tmin = R(0) /\ g_tmax = R(0)
          /\ g_box = NoBox /\ g_box2 = NoBox /\ g_tri = NoTri
       \/ /\ g_kind = "BoxBounds"
          /\ g_box \in UnionBoxes
          /\ g_ray = NoRay /\ g_tmin = R(0) /\ g_tmax = R(0)
          /\ g_objs = <<>> /\ g_box2 = NoBox /\ g_tri = NoTri
       \/ /\ g_kind = "Union"
          /\ g_box \in UnionBoxes
          /\ g_box2 \in UnionBoxes
          /\ g_ray = NoRay /\ g_tmin = R(0) /\ g_tmax = R(0)
          /\ g_objs = <<>> /\ g_tri = NoTri
       \/ /\ g_kind = "Triangle"
          /\ g_ray \in TriRays
          /\ g_tri \in Triangles
          /\ \E rg \in BoxRanges : g_tmin = rg[1] /\ g_tmax = rg[2]
          /\ g_objs = <<>> /\ g_box = NoBox /\ g_box2 = NoBox

GeomIdle ==
    /\ g_kind = "idle" /\ g_ray = NoRay /\ g_tmin = R(0) /\ g_tmax = R(0)
    /\ g_objs = <<>> /\ g_box = NoBox /\ g_box2 = NoBox /\ g_tri = NoTri /\ g_out = Pending

GeomInputs == <<g_kind, g_ray, g_tmin, g_tmax, g_objs, g_box, g_box2, g_tri>>

CallPrimativeHit ==
    /\ g_kind = "Primative" /\ g_out = Pending
    /\ g_out' = Primative_hit(g_objs[1], g_ray, g_tmin, g_tmax)
    /\ UNCHANGED <<GeomInputs, matVars, traceVars, renderVars, restVars>>

CallSphereRayHit ==
    /\ g_kind = "Sphere" /\ g_out = Pending
    /\ g_out' = Sphere_ray_hit(g_objs[1], g_ray, g_tmin, g_tmax)
    /\ UNCHANGED <<GeomInputs, matVars, traceVars, renderVars, restVars>>

CallTriangleRayHit ==
    /\ g_kind = "Triangle" /\ g_out = Pending
    /\ g_out' = Triangle_ray_hit(g_tri, g_ray, g_tmin, g_tmax)
    /\ UNCHANGED <<GeomInputs, matVars, traceVars, renderVars, restVars>>

CallHittableListHit ==
    /\ g_kind = "HittableList" /\ g_out = Pending
    /\ g_out' = HittableList_hit(g_objs, g_ray, g_tmin, g_tmax)
    /\ UNCHANGED <<GeomInputs, matVars, traceVars, renderVars, restVars>>

CallBoundingBoxHit ==
    /\ g_kind = "BoundingBox" /\ g_out = Pending
    /\ g_out' = BoundingBox_hit(g_box, g_ray, g_tmin, g_tmax)
    /\ UNCHANGED <<GeomInputs, matVars, traceVars, renderVars, restVars>>

CallHittableListBounds ==
    /\ g_kind = "ListBounds" /\ g_out = Pending
    /\ g_out' = HittableList_bounds(g_objs)
    /\ UNCHANGED <<GeomInputs, matVars, traceVars, renderVars, restVars>>

CallPrimativeBounds ==
    /\ g_kind = "PrimativeBounds" /\ g_out = Pending
    /\ g_out' = Primative_bounds(g_objs[1])
    /\ UNCHANGED <<GeomInputs, matVars, traceVars, renderVars, restVars>>

CallSphereBounds ==
    /\ g_kind = "SphereBounds" /\ g_out = Pending
    /\ g_out' = Sphere_bounds(g_objs[1])
    /\ UNCHANGED <<GeomInputs, matVars, traceVars, renderVars, restVars>>

CallBoundingBoxBounds ==
    /\ g_kind = "BoxBounds" /\ g_out = Pending
    /\ g_out' = BoundingBox_bounds(g_box)
    /\ UNCHANGED <<GeomInputs, matVars, traceVars, renderVars, restVars>>

CallBoundingBoxUnion ==
    /\ g_kind = "Union" /\ g_out = Pending
    /\ g_out' = BoundingBox_union(g_box, g_box2)
    /\ UNCHANGED <<GeomInputs, matVars, traceVars, renderVars, restVars>>

GeomNext ==
    \/ CallPrimativeHit
    \/ CallSphereRayHit
    \/ CallTriangleRayHit
    \/ CallHittableListHit
    \/ CallBoundingBoxHit
    \/ CallHittableListBounds
    \/ CallPrimativeBounds
    \/ CallSphereBounds
    \/ CallBoundingBoxBounds
    \/ CallBoundingBoxUnion
-----------------------------------------------------------------------------
(* Material harness: Init draws a material or texture, a texture pool, a    *)
(* hit record, a ray and a generator state (the draw d, then a zero draw);  *)
(* one action applies scatter, emit or value.                               *)

Gray == Rgba_splat(Frac(1, 2))
Red  == Rgba_new(R(1), R(0), R(0), R(1))

Draw(x, y, z, f) == [vec3 |-> <<x, y, z>>, f |-> f]
\* draws whose sample_unit_sphere direction is +x, -x and (3/5, 4/5, 0)
Draws ==
    {Draw(Frac(3, 4), Frac(1, 2), Frac(1, 2), f) : f \in {R(0), Frac(1, 2)}} \cup
    {Draw(Frac(1, 4), Frac(1, 2), Frac(1, 2), f) : f \in {R(0), Frac(1, 2)}} \cup
    {Draw(Frac(4, 5), Frac(9, 10), Frac(1, 2), R(0))}

\* texture pools over the keys 1..3; key 4 and the null key never resolve
TexturePools ==
    { (1 :> Solid(Gray)) @@ (2 :> Solid(Red)) @@ (3 :> Checker(2, 1, R(1))),
      (1 :> Solid(Gray)) @@ (2 :> Solid(Red)) @@ (3 :> Checker(2, 4, R(2))),
      (1 :> Solid(Gray)) @@ (3 :> Checker(2, 1, R(1))),
      (1 :> Solid(Gray)) @@ (3 :> Checker(2, 4, R(1))) }
TextureKeys == {NullKey, 1, 3, 4}

MatMaterials ==
    {Lambertian(k) : k \in TextureKeys} \cup
    {Metal(k, f) : k \in {1, 4}, f \in {R(0), Frac(1, 2), R(2)}} \cup
    {Dielectric(ir) : ir \in {Frac(4, 3), Frac(3, 2)}} \cup
    {DiffuseLight(k) : k \in TextureKeys}

MatPoints  == {V3(x, y, 1) : x \in -MaxCoord..MaxCoord, y \in {-1, 1}}
MatNormals == {V3(1, 0, 0), V3(-1, 0, 0)}
MatRecs ==
    {[HitRecord_default EXCEPT !.point = p, !.normal = n, !.time = R(1),
                               !.front_face = ff] :
        p \in {V3(1, 1, 1), V3(-1, 1, 1)}, n \in MatNormals, ff \in BOOLEAN}
MatRays ==
    {[origin |-> VZERO, direction |-> d] :
        d \in {V3(-1, 0, 0), V3(2, 0, 0), V3(-3, 4, 0), V3(-4, 3, 0), V3(4, 3, 0),
                V3(-5, 12, 0)}}

\* every argument the scatter passes to sqrt has a rational root (refract is
\* not called when refraction_ratio * sin_theta > 1)
ExactScatter(material, ray_in, rec, rng) ==
    /\ HasRSqrt(VLengthSquared(ray_in.direction))
    /\ HasRSqrt(VLengthSquared(VSub(Rng_vec3(rng), VScale(Frac(1, 2), VONE))))
    /\ material.kind = "Dielectric" =>
         LET eta  == IF rec.front_face THEN RDiv(R(1), material.ir) ELSE material.ir
             unit == VNormalize(ray_in.direction)
             cos  == Float_min(VDot(VNeg(unit), rec.normal), R(1))
             sin2 == RSub(R(1), RMul(cos, cos))
             perp == VScale(eta, VAdd(unit, VScale(cos, rec.normal)))
         IN  /\ HasRSqrt(sin2)
             /\ \/ RGt(RMul(eta, RSqrt(sin2)), R(1))
                \/ HasRSqrt(RAbs(RSub(R(1), VLengthSquared(perp))))

NoMaterial == Lambertian(NullKey)    \* SimpleMaterial::default()
NoTexture  == Solid(Gray)            \* SimpleTexture::default()
NoRng      == <<Draw(R(0), R(0), R(0), R(0))>>

MatInit ==
    /\ m_out = Pending
    /\ \E pool \in TexturePools :
         \/ \E mat \in MatMaterials, rec \in MatRecs, ray \in MatRays, d \in Draws :
              /\ ExactScatter(mat, ray, rec, <<d>>)
              /\ m_in = [kind |-> "scatter", material |-> mat, texture |-> NoTexture,
                         rec |-> rec, ray |-> ray, rng |-> <<d>> \o NoRng,
                         textures |-> pool]
         \/ \E mat \in MatMaterials, p \in MatPoints :
              m_in = [kind |-> "emit", material |-> mat, texture |-> NoTexture,
                      rec |-> [HitRecord_default EXCEPT !.point = p],
                      ray |-> NoRay, rng |-> NoRng, textures |-> pool]
         \/ \E k \in DOMAIN pool, p \in MatPoints :
              m_in = [kind |-> "value", material |-> NoMaterial, texture |-> pool[k],
                      rec |-> [HitRecord_default EXCEPT !.point = p],
                      ray |-> NoRay, rng |-> NoRng, textures |-> pool]

MatIdle ==
    /\ m_in = [kind |-> "idle", material |-> NoMaterial, texture |-> NoTexture,
               rec |-> HitRecord_default, ray |-> NoRay, rng |-> NoRng,
               textures |-> <<>>]
    /\ m_out = Pending

CallScatter ==
    /\ m_in.kind = "scatter" /\ m_out = Pending
    /\ m_out' = SimpleMaterial_scatter(m_in.material, m_in.ray, m_in.rec,
                                       m_in.textures, m_in.rng)
    /\ UNCHANGED <<m_in, geomVars, traceVars, renderVars, restVars>>

CallEmit ==
    /\ m_in.kind = "emit" /\ m_out = Pending
    /\ m_out' = [res |-> SimpleMaterial_emit(m_in.material, m_in.rec.u, m_in.rec.v,
                                             m_in.rec.point, m_in.textures)]
    /\ UNCHANGED <<m_in, geomVars, traceVars, renderVars, restVars>>

CallValue ==
    /\ m_in.kind = "value" /\ m_out = Pending
    /\ m_out' = [res |-> SimpleTexture_value(m_in.texture, m_in.rec.u, m_in.rec.v,
                                             m_in.rec.point, m_in.textures)]
    /\ UNCHANGED <<m_in, geomVars, traceVars, renderVars, restVars>>

MatNext == CallScatter \/ CallEmit \/ CallValue

-----------------------------------------------------------------------------
(* World::ray_color executed one frame of the call stack at a time.  Every  *)
(* sphere is centred on the x axis, every ray starts on it and runs along   *)
(* it, and every sampled direction is +x or -x, so each intermediate value  *)
(* is rational.                                                             *)

MaxDepth == 3    \* largest depth argument of the outermost call

White4 == Rgba_new(R(4), R(4), R(4), R(1))

TraceDraws ==
    {Draw(Frac(3, 4), Frac(1, 2), Frac(1, 2), f) : f \in {R(0), Frac(1, 2)}} \cup
    {Draw(Frac(1, 4), Frac(1, 2), Frac(1, 2), f) : f \in {R(0), Frac(1, 2)}}
TraceRngs == {<<a, b>> : a \in TraceDraws, b \in TraceDraws}

\* texture key 4 and material key 6 do not resolve
TraceTextures  == (1 :> Solid(Gray)) @@ (2 :> Solid(White4)) @@ (3 :> Checker(2, 1, R(1)))
TraceMaterials ==
    (1 :> Lambertian(1)) @@ (2 :> Metal(3, R(2))) @@ (3 :> Dielectric(Frac(3, 2)))
    @@ (4 :> DiffuseLight(2)) @@ (5 :> Lambertian(4))
TraceHittables ==
    {<<MkSphere(0, 2, m)>> : m \in {1, 3, 5}} \cup
    {<<MkSphere(MaxCoord, 1, m), MkSphere(-MaxCoord, 1, n)>> :
        m \in {1, 2, 3, 6}, n \in {1, 4}} \cup
    {<<MkSphere(MaxCoord, 1, 3), MkSphere(2 * MaxCoord, 1, 4)>>}
TraceWorlds ==
    {[textures |-> TraceTextures, materials |-> TraceMaterials, hittables |-> h] :
        h \in TraceHittables}
TraceRays ==
    {[origin |-> V3(x, 0, 0), direction |-> V3(d, 0, 0)] :
        x \in {0, 1}, d \in {1, -1}}

TraceInit ==
    /\ world \in TraceWorlds
    /\ rc_ray0 \in TraceRays
    /\ rc_depth0 \in 0..MaxDepth
    /\ rc_rng0 \in TraceRngs
    /\ rc_pc = "call"
    /\ rc_cur = [ray |-> rc_ray0, depth |-> rc_depth0]
    /\ rc_stack = <<>>
    /\ rc_val = Rgba_ZERO
    /\ rc_rng = rc_rng0
    /\ rc_queries = 0
    /\ rc_calls = 0

TraceFixed == <<world, rc_ray0, rc_depth0, rc_rng0>>

\* the innermost active call has depth > 0 and has run up to its nested call
Active  == rc_pc = "call" /\ rc_cur.depth > 0
CurStep == RayColor_step(world, rc_cur.ray, rc_rng)

\* if depth <= 0 { return ZERO }
RayColorDepthZero ==
    /\ rc_pc = "call" /\ rc_cur.depth <= 0
    /\ rc_val' = Rgba_ZERO
    /\ rc_pc' = "ret"
    /\ UNCHANGED <<TraceFixed, rc_cur, rc_stack, rc_rng, rc_queries, rc_calls>>
    /\ UNCHANGED <<geomVars, matVars, renderVars, restVars>>

\* RaycastResult::Miss => ONE
RayColorMiss ==
    /\ Active
    /\ CurStep.tag = "Miss"
    /\ rc_queries' = rc_queries + 1
    /\ rc_val' = Rgba_ONE
    /\ rc_pc' = "ret"
    /\ UNCHANGED <<TraceFixed, rc_cur, rc_stack, rc_rng, rc_calls>>
    /\ UNCHANGED <<geomVars, matVars, renderVars, restVars>>

\* materials.get(rec.material).expect("No material found!") on None
RayColorNoMaterial ==
    /\ Active
    /\ CurStep.tag = "Panic"
    /\ rc_queries' = rc_queries + 1
    /\ rc_pc' = "panicked"
    /\ UNCHANGED <<TraceFixed, rc_cur, rc_stack, rc_val, rc_rng, rc_calls>>
    /\ UNCHANGED <<geomVars, matVars, renderVars, restVars>>

\* ScatterResult::Absorbed => emitted
OnAbsorbed(step) ==
    /\ step.tag = "Hit"
    /\ step.scatter.res.tag = "Absorbed"
    /\ rc_rng' = step.scatter.rng
    /\ rc_val' = step.emitted
RayColorAbsorbed ==
    /\ Active
    /\ OnAbsorbed(CurStep)
    /\ rc_queries' = rc_queries + 1
    /\ rc_pc' = "ret"
    /\ UNCHANGED <<TraceFixed, rc_cur, rc_stack, rc_calls>>
    /\ UNCHANGED <<geomVars, matVars, renderVars, restVars>>

\* the nested call, with a plausible slip: depth is passed on unchanged
OnScattered_sameDepth(step) ==
    /\ step.tag = "Hit"
    /\ step.scatter.res.tag = "Scattered"
    /\ rc_rng' = step.scatter.rng
    /\ rc_stack' = Append(rc_stack, [emitted |-> step.emitted,
                                     color |-> step.scatter.res.color,
                                     depth |-> rc_cur.depth])
    /\ rc_cur' = [ray |-> step.scatter.res.ray_out, depth |-> rc_cur.depth]

\* ScatterResult::Scattered: the nested call self.ray_color(&ray_out, rng, depth - 1)
OnScattered(step) ==
    /\ step.tag = "Hit"
    /\ step.scatter.res.tag = "Scattered"
    /\ rc_rng' = step.scatter.rng
    /\ rc_stack' = Append(rc_stack, [emitted |-> step.emitted,
                                     color |-> step.scatter.res.color,
                                     depth |-> rc_cur.depth])
    /\ rc_cur' = [ray |-> step.scatter.res.ray_out, depth |-> rc_cur.depth - 1]
RayColorScattered ==
    /\ Active
    /\ OnScattered(CurStep)
    /\ rc_queries' = rc_queries + 1
    /\ rc_calls' = rc_calls + 1
    /\ UNCHANGED <<TraceFixed, rc_val, rc_pc>>
    /\ UNCHANGED <<geomVars, matVars, renderVars, restVars>>

\* the nested call returned: emitted + color * value
RayColorReturn ==
    /\ rc_pc = "ret" /\ rc_stack # <<>>
    /\ LET top == rc_stack[Len(rc_stack)]
       IN  rc_val' = Rgba_add(top.emitted, Rgba_mul(top.color, rc_val))
    /\ rc_stack' = SubSeq(rc_stack, 1, Len(rc_stack) - 1)
    /\ UNCHANGED <<TraceFixed, rc_cur, rc_pc, rc_rng, rc_queries, rc_calls>>
    /\ UNCHANGED <<geomVars, matVars, renderVars, restVars>>

\* the outermost call returned
RayColorFinish ==
    /\ rc_pc = "ret" /\ rc_stack = <<>>
    /\ rc_pc' = "done"
    /\ UNCHANGED <<TraceFixed, rc_cur, rc_stack, rc_val, rc_rng, rc_queries, rc_calls>>
    /\ UNCHANGED <<geomVars, matVars, renderVars, restVars>>

TraceNext ==
    \/ RayColorDepthZero
    \/ RayColorMiss
    \/ RayColorNoMaterial
    \/ RayColorAbsorbed
    \/ RayColorScattered
    \/ RayColorReturn
    \/ RayColorFinish

-----------------------------------------------------------------------------
(* The renderers: Init is a renderer as its constructor leaves it, each     *)
(* render call is one action.                                               *)

MaxFrames == 3   \* render calls per renderer

\* BasicCamera::new(from (0,0,0), at (-1,0,0), vfov 90, ar 1, aperture 0,
\* focus_dist 1): tan(45 degrees) = 1
RenderCamera ==
    BasicCamera_new(VZERO, V3(-1, 0, 0), R(1), R(1), R(0), R(1))

\* a Lambertian sphere in front of the camera and a light behind it; the
\* same with the front sphere's material key missing from the pool
RenderScenes ==
    {[world |-> [textures |-> TraceTextures, materials |-> TraceMaterials,
                 hittables |-> <<MkSphere(-MaxCoord, 1, m),
                                 MkSphere(MaxCoord, 1, 4)>>],
      sampler |-> RenderCamera] : m \in {1, 6}}
RenderSizes  == {<<2, 2>>, <<3, 2>>}
RenderDepths == {1, 5}
RenderRngs ==
    {<<Draw(Frac(3, 4), Frac(1, 2), Frac(1, 2), f1),
       Draw(Frac(1, 4), Frac(1, 2), Frac(1, 2), f2)>> :
        f1 \in {R(0), Frac(1, 2)}, f2 \in {R(0), Frac(1, 2)}}

RenderInit ==
    /\ variant \in {"progressive", "parallel"}
    /\ scene \in RenderScenes
    /\ \E size \in RenderSizes : width = size[1] /\ height = size[2]
    /\ max_ray_depth \in RenderDepths
    /\ image = Image_new(width, height)
    /\ num_samples = 0
    /\ r_pc = "ready"
    /\ frames = <<>>
    /\ linears = <<>>
    /\ image_buf = 0
    /\ p_rows = <<>>
    /\ p_img = Renderer_none
    /\ resizes = 0
    /\ r_last = NoRng

Self == [width |-> width, height |-> height, max_ray_depth |-> max_ray_depth,
         image |-> image, num_samples |-> num_samples]

\* the state a render call leaves
Rendered(out) ==
    /\ image' = out.self.image
    /\ num_samples' = out.self.num_samples
    /\ r_pc' = IF out.panicked THEN "panicked" ELSE "ready"
    /\ frames' = IF out.panicked THEN frames ELSE Append(frames, out.samples)
    /\ linears' = IF out.panicked THEN linears ELSE Append(linears, out.linear)
    /\ image_buf' = IF out.moved THEN image_buf + 1 ELSE image_buf
    /\ UNCHANGED <<variant, scene, width, height, max_ray_depth, p_rows, p_img,
                   resizes>>
    /\ UNCHANGED <<geomVars, matVars, traceVars, restVars>>

ProgressiveRender ==
    /\ variant = "progressive" /\ r_pc = "ready" /\ Len(frames) < MaxFrames
    /\ \E rng \in RenderRngs :
         /\ Rendered(ProgressiveRenderer_render(Self, scene, rng))
         /\ r_last' = rng

ParallelRender ==
    /\ variant = "parallel" /\ r_pc = "ready" /\ Len(frames) < MaxFrames
    /\ \E rngs \in [0..(height - 1) -> RenderRngs] :
         Rendered(ParallelRenderer_render(Self, scene, rngs))
    /\ UNCHANGED r_last

RenderNext == ProgressiveRender \/ ParallelRender

-----------------------------------------------------------------------------
(* ParallelRenderer::render executed step by step: the orchestrating thread *)
(* forks one task per scanline (into_par_iter over 0..height), each task    *)
(* takes its own thread_rng and computes its row pixel by pixel, the rows   *)
(* are collected into img_data, merged into the image, and num_samples is   *)
(* incremented.  The tasks interleave freely.                               *)

\* rng0 is history: the generator state the task started with
RowPending == [st |-> "pending", i |-> 0, rng |-> NoRng, rng0 |-> NoRng,
               acc |-> Renderer_none]
Rows       == 0..(height - 1)

\* render is entered: the scanline tasks exist, none has run
ParFork ==
    /\ variant = "parallel" /\ r_pc = "ready" /\ Len(frames) < MaxFrames
    /\ r_pc' = "fork"
    /\ p_rows' = [j \in Rows |-> RowPending]
    /\ UNCHANGED <<r_last, resizes, variant, scene, width, height, max_ray_depth, image,
                   num_samples, frames, linears, image_buf, p_img>>
    /\ UNCHANGED <<geomVars, matVars, traceVars, restVars>>

\* line 76: the task of row j starts with its own generator
WorkerStart(j) ==
    /\ r_pc = "fork" /\ p_rows[j].st = "pending"
    /\ \E rng \in RenderRngs :
          p_rows' = [p_rows EXCEPT ![j] = [@ EXCEPT !.st = "running", !.rng = rng,
                                                !.rng0 = rng]]
    /\ UNCHANGED <<r_last, resizes, variant, scene, width, height, max_ray_depth, image,
                   num_samples, r_pc, frames, linears, image_buf, p_img>>
    /\ UNCHANGED <<geomVars, matVars, traceVars, restVars>>

\* the task's state after the sample c of its pixel i
Worker_after(row, c) ==
    IF IsPanic(c) THEN [row EXCEPT !.st = "panicked"]
    ELSE [st  |-> IF row.i + 1 = width THEN "done" ELSE "running",
          i   |-> row.i + 1,
          rng |-> c.rng,
          rng0 |-> row.rng0,
          acc |-> Renderer_push(row.acc, c.color)]

\* a task that shares the buffer: it also blends its pixel into the image
WorkerPixel_shared(j) ==
    /\ r_pc = "fork" /\ p_rows[j].st = "running"
    /\ p_rows' = [p_rows EXCEPT ![j] =
          Worker_after(@, Renderer_sample(Self, scene, p_rows[j].i, j, p_rows[j].rng))]
    /\ image' = IF p_rows'[j].st = "panicked" THEN image
                ELSE ProgressiveRenderer_blend(Self, p_rows[j].i, j,
                         [c \in 1..4 |-> p_rows'[j].acc.data[4 * p_rows[j].i + c]]).image
    /\ UNCHANGED <<r_last, resizes, variant, scene, width, height, max_ray_depth,
                   num_samples, r_pc, frames, linears, image_buf, p_img>>
    /\ UNCHANGED <<geomVars, matVars, traceVars, restVars>>

\* lines 80-91: the task of row j computes its next pixel
WorkerPixel(j) ==
    /\ r_pc = "fork" /\ p_rows[j].st = "running"
    /\ p_rows' = [p_rows EXCEPT ![j] =
          Worker_after(@, Renderer_sample(Self, scene, p_rows[j].i, j, p_rows[j].rng))]
    /\ UNCHANGED <<r_last, resizes, variant, scene, width, height, max_ray_depth, image,
                   num_samples, r_pc, frames, linears, image_buf, p_img>>
    /\ UNCHANGED <<geomVars, matVars, traceVars, restVars>>

RECURSIVE Rows_collect(_, _, _)
RECURSIVE Rows_collect_reversed(_, _, _)
\* the rows' values concatenated last row first
Rows_collect_reversed(rows, j, acc) ==
    IF j = height THEN acc
    ELSE Rows_collect_reversed(rows, j + 1,
             [data   |-> rows[j].acc.data \o acc.data,
              linear |-> rows[j].acc.linear \o acc.linear])

\* the rows' values concatenated in row order
Rows_collect(rows, j, acc) ==
    IF j = height THEN acc
    ELSE Rows_collect(rows, j + 1,
             [data   |-> acc.data \o rows[j].acc.data,
              linear |-> acc.linear \o rows[j].acc.linear])

\* line 95: every task has finished; the rows are collected into img_data,
\* or the panic of a task is resumed on the orchestrating thread
ParJoin ==
    /\ r_pc = "fork"
    /\ \A j \in Rows : p_rows[j].st \in {"done", "panicked"}
    /\ IF \E j \in Rows : p_rows[j].st = "panicked"
       THEN r_pc' = "panicked" /\ p_img' = p_img
       ELSE r_pc' = "collected" /\ p_img' = Rows_collect(p_rows, 0, Renderer_none)
    /\ UNCHANGED <<r_last, resizes, variant, scene, width, height, max_ray_depth, image,
                   num_samples, frames, linears, image_buf, p_rows>>
    /\ UNCHANGED <<geomVars, matVars, traceVars, restVars>>

\* lines 97-109: the orchestrating thread merges img_data into the image
ParMerge ==
    /\ r_pc = "collected"
    /\ r_pc' = "merged"
    /\ image' = ParallelRenderer_merge(Self, p_img).self.image
    /\ image_buf' = IF ParallelRenderer_merge(Self, p_img).moved
                    THEN image_buf + 1 ELSE image_buf
    /\ UNCHANGED <<r_last, resizes, variant, scene, width, height, max_ray_depth,
                   num_samples, frames, linears, p_rows, p_img>>
    /\ UNCHANGED <<geomVars, matVars, traceVars, restVars>>

\* lines 111-112: num_samples += 1 and the image is returned
ParReturn ==
    /\ r_pc = "merged"
    /\ r_pc' = "ready"
    /\ num_samples' = num_samples + 1
    /\ frames' = Append(frames, p_img.data)
    /\ linears' = Append(linears, p_img.linear)
    /\ p_rows' = <<>>
    /\ p_img' = Renderer_none
    /\ UNCHANGED <<r_last, resizes, variant, scene, width, height, max_ray_depth, image, image_buf>>
    /\ UNCHANGED <<geomVars, matVars, traceVars, restVars>>

ParInit == RenderInit /\ variant = "parallel"

ParNext ==
    \/ ParFork
    \/ \E j \in Rows : WorkerStart(j)
    \/ \E j \in Rows : WorkerPixel(j)
    \/ ParJoin
    \/ ParMerge
    \/ ParReturn

-----------------------------------------------------------------------------
\* Each specification drives one group of variables; the other groups rest.
TraceIdle  ==
    /\ world = <<>> /\ rc_ray0 = NoRay /\ rc_depth0 = 0 /\ rc_rng0 = NoRng
    /\ rc_pc = "idle" /\ rc_cur = <<>> /\ rc_stack = <<>> /\ rc_val = Rgba_ZERO
    /\ rc_rng = NoRng /\ rc_queries = 0 /\ rc_calls = 0
RenderIdle ==
    /\ variant = "idle" /\ scene = <<>> /\ width = 0 /\ height = 0
    /\ max_ray_depth = 0 /\ image = Image_new(0, 0) /\ num_samples = 0
    /\ r_pc = "idle" /\ frames = <<>> /\ linears = <<>> /\ image_buf = 0
    /\ p_rows = <<>> /\ p_img = Renderer_none /\ resizes = 0 /\ r_last = NoRng

-----------------------------------------------------------------------------
(* The application (razz/src/cpu.rs): CpuState owns a ParallelRenderer of   *)
(* depth 5 and a scene; each frame it calls render, and a resize event      *)
(* replaces the renderer.                                                   *)

MaxResizes == 2   \* resize events per run

APP_MAX_RAY_DEPTH == 5

\* CpuState::new: ParallelRenderer::new(size.width, size.height, 5)
AppInit == ParInit /\ max_ray_depth = APP_MAX_RAY_DEPTH

\* the state the assignment self.renderer = r leaves
AppRenderer(r) ==
    /\ width' = r.width /\ height' = r.height
    /\ max_ray_depth' = r.max_ray_depth
    /\ image' = r.image /\ num_samples' = r.num_samples
    /\ image_buf' = 0
    /\ frames' = <<>> /\ linears' = <<>>

\* a resize that keeps the sample count of the renderer it replaces
AppResize_keeps_count(new_size) ==
    /\ variant = "parallel" /\ r_pc = "ready" /\ resizes < MaxResizes
    /\ AppRenderer([Renderer_new(new_size[1], new_size[2], APP_MAX_RAY_DEPTH)
                       EXCEPT !.num_samples = num_samples])
    /\ resizes' = resizes + 1
    /\ UNCHANGED <<variant, scene, r_pc, p_rows, p_img, r_last>>
    /\ UNCHANGED <<geomVars, matVars, traceVars, restVars>>

\* CpuState::resize, lines 264-267
AppResize(new_size) ==
    /\ variant = "parallel" /\ r_pc = "ready" /\ resizes < MaxResizes
    /\ AppRenderer(Renderer_new(new_size[1], new_size[2], APP_MAX_RAY_DEPTH))
    /\ resizes' = resizes + 1
    /\ UNCHANGED <<variant, scene, r_pc, p_rows, p_img, r_last>>
    /\ UNCHANGED <<geomVars, matVars, traceVars, restVars>>

\* CpuState::render, line 295: self.renderer.render(&self.scene)
AppRender == ParallelRender

AppNext ==
    \/ AppRender
    \/ \E new_size \in RenderSizes : AppResize(new_size)

-----------------------------------------------------------------------------
(* SimpleTexture::value executed one nesting level at a time.  A Checker    *)
(* returns the value of the branch it selects (a tail call), so the state   *)
(* is the innermost call's self and the number of calls on the stack.  The  *)
(* Noise texture makes no nested call and is left out.                      *)

MaxNesting == 6    \* calls of value on the stack before the model stops

\* pools over the keys 1..4: chains without a cycle, a Checker that is its
\* own odd and even branch, two Checkers that select each other, a cycle on
\* the odd branch only, a branch that misses the pool
TexPools ==
    { (1 :> Solid(Gray)) @@ (2 :> Solid(Red)) @@ (3 :> Checker(2, 1, R(1))),
      (1 :> Solid(Gray)) @@ (2 :> Checker(1, 1, R(1))) @@ (3 :> Checker(2, 1, R(2)))
          @@ (4 :> Checker(3, 2, R(1))),
      (1 :> Solid(Gray)) @@ (3 :> Checker(3, 3, R(1))),
      (1 :> Solid(Gray)) @@ (3 :> Checker(4, 1, R(1))) @@ (4 :> Checker(3, 1, R(1))),
      (1 :> Solid(Gray)) @@ (2 :> Checker(2, 1, R(1))) @@ (3 :> Checker(1, 2, R(1))),
      (1 :> Solid(Gray)) @@ (3 :> Checker(4, 3, R(1))) @@ (4 :> Checker(3, 4, R(1))),
      (1 :> Solid(Gray)) @@ (3 :> Checker(2, 1, R(1))) }
TexPoints == {V3(x, y, 1) : x \in -MaxCoord..MaxCoord, y \in {-1, 1}}

\* lines 46-47: the key of the branch a Checker takes at p
Checker_branch(self, p) ==
    IF SinSign(RMul(self.scale, p[1])) * SinSign(RMul(self.scale, p[2]))
           * SinSign(RMul(self.scale, p[3])) < 0
    THEN self.odd ELSE self.even

TexInit ==
    /\ tx_pool \in TexPools
    /\ tx_root \in DOMAIN tx_pool
    /\ tx_p \in TexPoints
    /\ tx_cur = tx_pool[tx_root]
    /\ tx_depth = 1
    /\ tx_pc = "call"
    /\ tx_val = Rgba_ZERO

TexIdle ==
    /\ tx_pool = <<>> /\ tx_root = NullKey /\ tx_p = VZERO /\ tx_cur = NoTexture
    /\ tx_depth = 0 /\ tx_pc = "idle" /\ tx_val = Rgba_ZERO

\* line 44: a Solid returns its colour, and every caller returns that
ValueSolid ==
    /\ tx_pc = "call" /\ tx_cur.kind = "Solid"
    /\ tx_val' = tx_cur.color
    /\ tx_pc' = "done"
    /\ UNCHANGED <<tx_pool, tx_root, tx_p, tx_cur, tx_depth>>
    /\ UNCHANGED <<coreVars, noiseVars, gpuVars, longVars>>

\* lines 50, 55: the selected key is not in the pool
ValueCheckerMissing ==
    /\ tx_pc = "call" /\ tx_cur.kind = "Checker"
    /\ ~SlotMap_contains(tx_pool, Checker_branch(tx_cur, tx_p))
    /\ tx_val' = Magenta
    /\ tx_pc' = "done"
    /\ UNCHANGED <<tx_pool, tx_root, tx_p, tx_cur, tx_depth>>
    /\ UNCHANGED <<coreVars, noiseVars, gpuVars, longVars>>

\* a Checker that refuses to evaluate itself: magenta instead of the call
ValueCheckerNested_guarded ==
    /\ tx_pc = "call" /\ tx_cur.kind = "Checker"
    /\ SlotMap_contains(tx_pool, Checker_branch(tx_cur, tx_p))
    /\ tx_depth < MaxNesting
    /\ IF tx_pool[Checker_branch(tx_cur, tx_p)] = tx_cur
       THEN tx_val' = Magenta /\ tx_pc' = "done" /\ UNCHANGED <<tx_cur, tx_depth>>
       ELSE /\ tx_cur' = tx_pool[Checker_branch(tx_cur, tx_p)]
            /\ tx_depth' = tx_depth + 1
            /\ UNCHANGED <<tx_pc, tx_val>>
    /\ UNCHANGED <<tx_pool, tx_root, tx_p>>
    /\ UNCHANGED <<coreVars, noiseVars, gpuVars, longVars>>

\* lines 49, 54: the selected texture's value is called
ValueCheckerNested ==
    /\ tx_pc = "call" /\ tx_cur.kind = "Checker"
    /\ SlotMap_contains(tx_pool, Checker_branch(tx_cur, tx_p))
    /\ tx_depth < MaxNesting
    /\ tx_cur' = tx_pool[Checker_branch(tx_cur, tx_p)]
    /\ tx_depth' = tx_depth + 1
    /\ UNCHANGED <<tx_pool, tx_root, tx_p, tx_pc, tx_val>>
    /\ UNCHANGED <<coreVars, noiseVars, gpuVars, longVars>>

TexNext == ValueSolid \/ ValueCheckerMissing \/ ValueCheckerNested
-----------------------------------------------------------------------------
(* PerlinData::new executed one iteration of permute at a time, followed by *)
(* calls of noise.  The generator is a counter with a stride: draw number k *)
(* of the stream is next + k * stride, and Uniform::new_inclusive(0, i)     *)
(* maps a draw onto 0..i.                                                   *)

NoiseRngs ==
    {[next |-> a, stride |-> b] : a \in {0, 7, 100}, b \in {0, 1, 3, 97}}
Uniform_sample(rng, i) == rng.next % (i + 1)
NoiseRng_advance(rng) ==
    [rng EXCEPT !.next = (rng.next + rng.stride) % (POINT_COUNT * POINT_COUNT)]

\* points beside and between lattice points, with negative coordinates, far
\* from the origin, and with coordinates that are not finite
NoisePoints ==
    {<<Frac(x, 2), Frac(-x, 2), R(1)>> : x \in -MaxCoord..MaxCoord} \cup
    {V3(-1, POINT_COUNT - 1, -POINT_COUNT), V3(POINT_COUNT, -POINT_COUNT - 1, 1000),
     <<INFINITY, R(0), R(0)>>, <<R(0), NEG_INFINITY, NaN>>}

PerlinTables ==
    [perm_x |-> n_tables[1], perm_y |-> n_tables[2], perm_z |-> n_tables[3]]

NoiseInit ==
    /\ n_rng \in NoiseRngs
    /\ n_p = <<>>
    /\ n_i = 0
    /\ n_tables = <<>>
    /\ n_pc = "new"
    /\ n_point = VZERO
    /\ n_access = {}

NoiseIdle ==
    /\ n_rng = [next |-> 0, stride |-> 0] /\ n_p = <<>> /\ n_i = 0
    /\ n_tables = <<>> /\ n_pc = "idle" /\ n_point = VZERO /\ n_access = {}

\* generate_perm, lines 86-89: the identity table, and permute is entered
GeneratePerm ==
    /\ n_pc = "new"
    /\ n_p' = Perm_identity
    /\ n_i' = POINT_COUNT - 1
    /\ n_pc' = "permute"
    /\ UNCHANGED <<n_rng, n_tables, n_point, n_access>>
    /\ UNCHANGED <<coreVars, texVars, gpuVars, longVars>>

\* one iteration that loses an entry
PermuteStep_overwrite ==
    /\ n_pc = "permute" /\ n_i >= 0
    /\ n_p' = permute_body_overwrite(n_p, n_i, Uniform_sample(n_rng, n_i))
    /\ n_rng' = NoiseRng_advance(n_rng)
    /\ n_i' = n_i - 1
    /\ UNCHANGED <<n_tables, n_pc, n_point, n_access>>
    /\ UNCHANGED <<coreVars, texVars, gpuVars, longVars>>

\* permute, lines 95-100: one iteration of for i in (0..n).rev()
PermuteStep ==
    /\ n_pc = "permute" /\ n_i >= 0
    /\ n_p' = permute_body(n_p, n_i, Uniform_sample(n_rng, n_i))
    /\ n_rng' = NoiseRng_advance(n_rng)
    /\ n_i' = n_i - 1
    /\ UNCHANGED <<n_tables, n_pc, n_point, n_access>>
    /\ UNCHANGED <<coreVars, texVars, gpuVars, longVars>>

\* the loop is over: generate_perm returns p; after perm_z the PerlinData
\* is complete (new, lines 46-55)
GeneratePermReturn ==
    /\ n_pc = "permute" /\ n_i < 0
    /\ n_tables' = Append(n_tables, n_p)
    /\ n_pc' = IF Len(n_tables) = 2 THEN "ready" ELSE "new"
    /\ UNCHANGED <<n_rng, n_p, n_i, n_point, n_access>>
    /\ UNCHANGED <<coreVars, texVars, gpuVars, longVars>>

\* noise(p): the indices of the eight corners are computed and the tables
\* are read; a build that checks overflow panics at isize::MAX + 1
NoiseCall ==
    /\ n_pc \in {"ready", "sampled"}
    /\ \E p \in NoisePoints :
         /\ n_point' = p
         /\ \/ /\ n_access' = PerlinData_noise_indices(PerlinTables, p)
               /\ n_pc' = "sampled"
            \/ /\ PerlinData_noise_overflows(p)
               /\ n_access' = {}
               /\ n_pc' = "panicked"
    /\ UNCHANGED <<n_rng, n_p, n_i, n_tables>>
    /\ UNCHANGED <<coreVars, texVars, gpuVars, longVars>>

NoiseNext == GeneratePerm \/ PermuteStep \/ GeneratePermReturn \/ NoiseCall
-----------------------------------------------------------------------------
(* GpuState: Init is the state GpuState::new returns, each call of render   *)
(* and of resize is one action.                                             *)

MaxGpuFrames == 5   \* largest frame_number a call of render starts from

GpuSizes == {<<1, 1>>, <<32, 32>>, <<33, 64>>}
\* Ok, or the SwapChainError of get_current_frame
SwapChainFrames == {"Ok", "Timeout", "Outdated", "Lost", "OutOfMemory"}

GpuInit ==
    /\ gp_frame_number = 0
    /\ gp_size \in GpuSizes
    /\ gp_views = GpuState_make_render_textures(0)
    /\ gp_render_bind_groups = GpuState_render_bind_groups(gp_views)
    /\ gp_compute_bind_groups = GpuState_compute_bind_groups(gp_views)
    /\ gp_made = 2
    /\ gp_submitted = <<>>
    /\ gp_result = "none"

GpuIdle ==
    /\ gp_frame_number = 0 /\ gp_size = <<0, 0>> /\ gp_views = <<>>
    /\ gp_render_bind_groups = <<>> /\ gp_compute_bind_groups = <<>>
    /\ gp_made = 0 /\ gp_submitted = <<>> /\ gp_result = "idle"

GpuSelf ==
    [frame_number |-> gp_frame_number, size |-> gp_size, views |-> gp_views,
     render_bind_groups |-> gp_render_bind_groups,
     compute_bind_groups |-> gp_compute_bind_groups]

GpuLeft(self) ==
    /\ gp_frame_number' = self.frame_number
    /\ gp_size' = self.size
    /\ gp_views' = self.views
    /\ gp_render_bind_groups' = self.render_bind_groups
    /\ gp_compute_bind_groups' = self.compute_bind_groups

GpuRender ==
    /\ gp_result # "idle" /\ gp_frame_number <= MaxGpuFrames
    /\ \E frame \in SwapChainFrames :
         LET out == GpuState_render(GpuSelf, frame)
         IN  /\ GpuLeft(out.self)
             /\ gp_submitted' = gp_submitted \o out.submitted
             /\ gp_result' = out.result
    /\ UNCHANGED gp_made
    /\ UNCHANGED <<coreVars, texVars, noiseVars, longVars>>

GpuResize ==
    /\ gp_result # "idle" /\ gp_made < 2 * (MaxResizes + 1)
    /\ \E new_size \in GpuSizes : GpuLeft(GpuState_resize(GpuSelf, new_size, gp_made))
    /\ gp_made' = gp_made + 2
    /\ gp_submitted' = <<>>
    /\ gp_result' = "none"
    /\ UNCHANGED <<coreVars, texVars, noiseVars, longVars>>

GpuNext == GpuRender \/ GpuResize
-----------------------------------------------------------------------------
(* A progressive renderer over many calls: Lambertian spheres over solid    *)
(* textures, max_ray_depth = 1, one generator that every call draws from.   *)

MaxCalls == 42   \* render calls of one renderer

LongTextures  == (1 :> Solid(Gray)) @@ (2 :> Solid(White4))
LongMaterials == (1 :> Lambertian(1)) @@ (2 :> Lambertian(2))
\* a sphere in front of the camera and one behind it
LongScenes ==
    {[world |-> [textures |-> LongTextures, materials |-> LongMaterials,
                 hittables |-> <<MkSphere(-MaxCoord, 1, m),
                                 MkSphere(MaxCoord, 1, 2)>>],
      sampler |-> RenderCamera] : m \in {1, 2}}

LongInit ==
    /\ \E size \in RenderSizes : lr_self = Renderer_new_f32(size[1], size[2], 1)
    /\ lr_scene \in LongScenes
    /\ lr_rng \in RenderRngs
    /\ lr_seen = [k \in 1..(lr_self.width * lr_self.height) |-> {}]

LongIdle ==
    /\ lr_self = Renderer_new_f32(0, 0, 0) /\ lr_scene = <<>>
    /\ lr_rng = NoRng /\ lr_seen = <<>>

LongRendered(out) ==
    /\ lr_self' = out.self
    /\ lr_rng' = out.rng
    /\ lr_seen' = [k \in DOMAIN lr_seen |->
                      lr_seen[k] \cup {IF out.hits[k] THEN "hit" ELSE "miss"}]

LongRender ==
    /\ lr_self.num_samples < MaxCalls
    /\ LongRendered(ProgressiveRenderer_render_f32(lr_self, lr_scene, lr_rng))
    /\ UNCHANGED lr_scene
    /\ UNCHANGED <<coreVars, texVars, noiseVars, gpuVars>>

LongNext == LongRender
-----------------------------------------------------------------------------
(* Specifications                                                           *)

CoreIdle == GeomIdle /\ MatIdle /\ TraceIdle /\ RenderIdle
RestIdle == TexIdle /\ NoiseIdle /\ GpuIdle /\ LongIdle

InitGeom == GeomInit /\ MatIdle /\ TraceIdle /\ RenderIdle /\ RestIdle
SpecGeom == InitGeom /\ [][GeomNext]_vars

InitMaterial == GeomIdle /\ MatInit /\ TraceIdle /\ RenderIdle /\ RestIdle
SpecMaterial == InitMaterial /\ [][MatNext]_vars

InitTrace == GeomIdle /\ MatIdle /\ TraceInit /\ RenderIdle /\ RestIdle
SpecTrace == InitTrace /\ [][TraceNext]_vars

InitRender == GeomIdle /\ MatIdle /\ TraceIdle /\ RenderInit /\ RestIdle
SpecRender == InitRender /\ [][RenderNext]_vars


InitParallel == GeomIdle /\ MatIdle /\ TraceIdle /\ ParInit /\ RestIdle
SpecParallel == InitParallel /\ [][ParNext]_vars

InitApp == GeomIdle /\ MatIdle /\ TraceIdle /\ AppInit /\ RestIdle
SpecApp == InitApp /\ [][AppNext]_vars

InitTexture == CoreIdle /\ TexInit /\ NoiseIdle /\ GpuIdle /\ LongIdle
SpecTexture == InitTexture /\ [][TexNext]_vars
\* a call that can take a step takes it: the evaluation runs on one thread
\* that nothing suspends
SpecTextureLive == SpecTexture /\ WF_vars(TexNext)

InitNoise == CoreIdle /\ TexIdle /\ NoiseInit /\ GpuIdle /\ LongIdle
SpecNoise == InitNoise /\ [][NoiseNext]_vars

InitGpu == CoreIdle /\ TexIdle /\ NoiseIdle /\ GpuInit /\ LongIdle
SpecGpu == InitGpu /\ [][GpuNext]_vars

InitLong == CoreIdle /\ TexIdle /\ NoiseIdle /\ GpuIdle /\ LongInit
SpecLong == InitLong /\ [][LongNext]_vars

-----------------------------------------------------------------------------
(* Claims about the intersection routines, checked under SpecGeom.          *)

GDone(k)   == g_kind = k /\ g_out # Pending
InRange(t) == RLe(g_tmin, t) /\ RLe(t, g_tmax)
HitTime(res) == IF res.tag = "Hit" THEN res.rec.time ELSE NaN

\* the sphere quadratic a*t^2 + 2*half_b*t + c of sphere sp and the ray g_ray
QuadA       == VLengthSquared(g_ray.direction)
QuadHalfB(sp) == VDot(VSub(g_ray.origin, sp.center), g_ray.direction)
QuadC(sp)   == RSub(VLengthSquared(VSub(g_ray.origin, sp.center)),
                    RMul(sp.radius, sp.radius))
Quad(sp, t) == RAdd(RAdd(RMul(QuadA, RMul(t, t)),
                         RMul(R(2), RMul(QuadHalfB(sp), t))), QuadC(sp))
Root1(sp)   == RDiv(RSub(RNeg(QuadHalfB(sp)), RSqrt(Discriminant(sp, g_ray))), QuadA)
Root2(sp)   == RDiv(RAdd(RNeg(QuadHalfB(sp)), RSqrt(Discriminant(sp, g_ray))), QuadA)

TestRay        == [origin |-> V3(-3, 0, 0), direction |-> V3(1, 0, 0)]
TestRayReverse == [origin |-> V3(-3, 0, 0), direction |-> V3(-1, 0, 0)]
UnitSphere     == MkSphere(0, 1, 1)
UnitBox        == [min |-> V3(-1, -1, -1), max |-> V3(1, 1, 1)]

(* C6: HittableList::hit returns Miss exactly when no object, tested alone *)
(* with the original [t_min, t_max], reports a hit; otherwise it returns a *)
(* hit whose time is the minimum of the individual hit times, the record   *)
(* is the record (material key included) of an object that hits at that    *)
(* time, and the time is the same for every order of the objects: it is   *)
(* unchanged by exchanging any two objects of the list, and every list of  *)
(* every order is an input, so it is unchanged by every permutation.       *)
Individual(i) == Primative_hit(g_objs[i], g_ray, g_tmin, g_tmax)
Hitters       == {i \in 1..Len(g_objs) : Individual(i).tag = "Hit"}
Exchanged(objs, a, b) ==
    [i \in 1..Len(objs) |-> IF i = a THEN objs[b] ELSE IF i = b THEN objs[a] ELSE objs[i]]

C6_ListHitIsClosest ==
    GDone("HittableList") =>
        /\ (g_out.tag = "Miss") <=> (Hitters = {})
        /\ g_out.tag = "Hit" =>
              /\ \A i \in Hitters : RLe(g_out.rec.time, Individual(i).rec.time)
              /\ \E i \in Hitters :
                    /\ g_out.rec = Individual(i).rec
                    /\ g_out.rec.material = g_objs[i].material
        /\ \A a, b \in 1..Len(g_objs) :
              a < b =>
                 HitTime(HittableList_hit(Exchanged(g_objs, a, b), g_ray, g_tmin, g_tmax))
                     = HitTime(g_out)

\* two objects hit, the later one in the list is strictly closer, and it wins
C6_Witness ==
    /\ GDone("HittableList")
    /\ \E i, j \in Hitters :
          /\ i < j
          /\ RLt(Individual(j).rec.time, Individual(i).rec.time)
          /\ g_out.tag = "Hit"
          /\ g_out.rec.time = Individual(j).rec.time
          /\ g_out.rec.material = g_objs[j].material
          /\ g_objs[i].material # g_objs[j].material

(* C7: for every successful sphere or triangle hit the stored normal n     *)
(* satisfies dot(ray.direction, n) <= 0; the front-face flag is true       *)
(* exactly when dot(ray.direction, outward_normal) < 0; n is the outward   *)
(* normal when the flag is true and its negation when it is false.         *)
FrontFaceOK(outward, normal, flag) ==
    /\ RLe(VDot(g_ray.direction, normal), R(0))
    /\ flag <=> RLt(VDot(g_ray.direction, outward), R(0))
    /\ normal = IF flag THEN outward ELSE VNeg(outward)

SphereOutward(sp, t) == VDivS(VSub(Ray_at(g_ray, t), sp.center), sp.radius)
TriOutward(tri) == VNormalize(VCross(VSub(tri.v1, tri.v0), VSub(tri.v2, tri.v0)))

C7_FrontFace ==
    /\ (GDone("Primative") /\ g_out.tag = "Hit") =>
          FrontFaceOK(SphereOutward(g_objs[1], g_out.rec.time),
                      g_out.rec.normal, g_out.rec.front_face)
    /\ (GDone("Sphere") /\ g_out.tag = "Some") =>
          FrontFaceOK(SphereOutward(g_objs[1], g_out.time),
                      g_out.rec.normal, g_out.rec.face = "Front")
    /\ (GDone("Triangle") /\ g_out.tag = "Some") =>
          FrontFaceOK(TriOutward(g_tri), g_out.rec.normal, g_out.rec.face = "Front")

\* a back-face sphere hit: the flag is false and the stored normal is the
\* negated outward normal, strictly against the ray
C7_Witness ==
    /\ GDone("Primative") /\ g_out.tag = "Hit"
    /\ ~g_out.rec.front_face
    /\ g_out.rec.normal = VNeg(SphereOutward(g_objs[1], g_out.rec.time))
    /\ RLt(VDot(g_ray.direction, g_out.rec.normal), R(0))

(* C8: with r1 <= r2 the two roots of the ray/sphere quadratic, sphere_hit *)
(* returns r1 if r1 is in [t_min, t_max], else r2 if r2 is in              *)
(* [t_min, t_max], else Miss (also Miss when there is no real root); every *)
(* returned time is in [t_min, t_max].  The ray (-3,0,0)+t(1,0,0) hits the *)
(* unit sphere at time 2 in [0, inf) and the reversed ray misses it.       *)
C8_SphereRootSelection ==
    GDone("Primative") =>
        LET sp == g_objs[1]
            r1 == Root1(sp)
            r2 == Root2(sp)
        IN  /\ IF RLt(Discriminant(sp, g_ray), R(0)) THEN g_out.tag = "Miss"
               ELSE /\ Quad(sp, r1) = R(0) /\ Quad(sp, r2) = R(0) /\ RLe(r1, r2)
                    /\ IF InRange(r1) THEN HitTime(g_out) = r1
                       ELSE IF InRange(r2) THEN HitTime(g_out) = r2
                       ELSE g_out.tag = "Miss"
            /\ g_out.tag = "Hit" => InRange(g_out.rec.time)
            /\ (sp = UnitSphere /\ g_tmin = R(0) /\ g_tmax = INFINITY) =>
                  /\ g_ray = TestRay => HitTime(g_out) = R(2)
                  /\ g_ray = TestRayReverse => g_out.tag = "Miss"

\* the smaller root is out of range and the larger one is returned
C8_Witness ==
    /\ GDone("Primative")
    /\ ~RLt(Discriminant(g_objs[1], g_ray), R(0))
    /\ ~InRange(Root1(g_objs[1]))
    /\ RLt(Root1(g_objs[1]), Root2(g_objs[1]))
    /\ HitTime(g_out) = Root2(g_objs[1])

(* The brute-force slab test: per axis the ray is inside the slab between  *)
(* its entry and exit time; the box is hit when the intersection of these  *)
(* three intervals with (t_min, t_max) is non-empty.                       *)
NoZeroComponent(d) == \A a \in 1..3 : d[a] # R(0)
BoxWellFormed(b)   == \A a \in 1..3 : RLe(b.min[a], b.max[a])
StrictlyInside(b, pt) == \A a \in 1..3 : RLt(b.min[a], pt[a]) /\ RLt(pt[a], b.max[a])
AxisTime(corner, r, a) == RDiv(RSub(corner[a], r.origin[a]), r.direction[a])
AxisEntry(b, r, a) == RMin(AxisTime(b.min, r, a), AxisTime(b.max, r, a))
AxisExit(b, r, a)  == RMax(AxisTime(b.min, r, a), AxisTime(b.max, r, a))
FirstExit(b, r)    == RMin(AxisExit(b, r, 1), RMin(AxisExit(b, r, 2), AxisExit(b, r, 3)))
LastEntry(b, r)    == RMax(AxisEntry(b, r, 1), RMax(AxisEntry(b, r, 2), AxisEntry(b, r, 3)))
SlabTest(b, r, t_min, t_max) ==
    RLt(RMax(t_min, LastEntry(b, r)), RMin(t_max, FirstExit(b, r)))

(* C9: for a box with min <= max, a ray direction with no zero component   *)
(* and t_min < t_max, BoundingBox::hit returns Hit exactly when the slab   *)
(* test succeeds.                                                          *)
C9_BoxHitIsSlabTest ==
    (/\ GDone("BoundingBox")
     /\ BoxWellFormed(g_box) /\ NoZeroComponent(g_ray.direction)
     /\ RLt(g_tmin, g_tmax))
        => ((g_out.tag = "Hit") <=> SlabTest(g_box, g_ray, g_tmin, g_tmax))

\* BoundingBox::hit reports a Hit where the slab test fails
C9_Divergence ==
    /\ GDone("BoundingBox")
    /\ BoxWellFormed(g_box) /\ NoZeroComponent(g_ray.direction)
    /\ RLt(g_tmin, g_tmax)
    /\ g_out.tag = "Hit"
    /\ ~SlabTest(g_box, g_ray, g_tmin, g_tmax)

(* C10 as claimed: origin strictly inside the box, 0 <= t_min < t_max and  *)
(* no zero direction component imply Hit; the ray (-3,0,0)+t(1,0,0) hits   *)
(* the box [-1,1]^3 in [0, inf).                                           *)
C10_InsideAlwaysHits ==
    GDone("BoundingBox") =>
        /\ (/\ StrictlyInside(g_box, g_ray.origin)
            /\ NoZeroComponent(g_ray.direction)
            /\ RLe(R(0), g_tmin) /\ RLt(g_tmin, g_tmax))
              => g_out.tag = "Hit"
        /\ (g_box = UnitBox /\ g_ray = TestRay /\ g_tmin = R(0) /\ g_tmax = INFINITY)
              => g_out.tag = "Hit"

(* C10 amended: origin strictly inside the box, no zero direction          *)
(* component, 0 <= t_min < t_max and t_min smaller than the time at which  *)
(* the ray leaves the box (the smallest axis exit time) imply Hit; the ray *)
(* (-3,0,0)+t(1,0,0) hits the box [-1,1]^3 in [0, inf).                    *)
C10_InsideHitsBeforeExit ==
    GDone("BoundingBox") =>
        /\ (/\ StrictlyInside(g_box, g_ray.origin)
            /\ NoZeroComponent(g_ray.direction)
            /\ RLe(R(0), g_tmin) /\ RLt(g_tmin, g_tmax)
            /\ RLt(g_tmin, FirstExit(g_box, g_ray)))
              => g_out.tag = "Hit"
        /\ (g_box = UnitBox /\ g_ray = TestRay /\ g_tmin = R(0) /\ g_tmax = INFINITY)
              => g_out.tag = "Hit"

\* a ray that starts inside the box, runs against an axis and is cut by a
\* positive t_min before it leaves
C10_Witness ==
    /\ GDone("BoundingBox")
    /\ StrictlyInside(g_box, g_ray.origin)
    /\ NoZeroComponent(g_ray.direction)
    /\ RLt(g_ray.direction[1], R(0))
    /\ RLt(R(0), g_tmin) /\ RLt(g_tmin, FirstExit(g_box, g_ray))
    /\ g_out.tag = "Hit"


-----------------------------------------------------------------------------
(* C22: tangent rays                                                        *)

\* the ray g_ray is tangent to the sphere input: the quadratic has one root
Tangent == Discriminant(g_objs[1], g_ray) = R(0)

\* C22: a ray whose sphere quadratic has a discriminant of exactly zero
\* yields Miss from the sphere hit test (Primative::hit / sphere_hit and
\* Sphere::ray_hit), for every t_min and t_max.
C22_TangentIsMiss ==
    /\ (GDone("Primative") /\ Tangent) => g_out.tag = "Miss"
    /\ (GDone("Sphere") /\ Tangent) => g_out.tag = "None"

\* a tangent ray whose single root -half_b / a lies in [t_min, t_max] is
\* reported as a hit at that root
C22_Divergence ==
    /\ GDone("Primative") /\ Tangent
    /\ InRange(Root1(g_objs[1]))
    /\ g_out.tag = "Hit"
    /\ g_out.rec.time = RDiv(RNeg(QuadHalfB(g_objs[1])), QuadA)
    /\ g_out.rec.point = Ray_at(g_ray, g_out.rec.time)

-----------------------------------------------------------------------------
(* C24, C25, C26: bounds                                                    *)

BoxLe(a, b) == \A c \in 1..3 : RLe(a[c], b[c])
\* box outer contains box inner
Contains(outer, inner) == BoxLe(outer.min, inner.min) /\ BoxLe(inner.max, outer.max)
ObjectBounds == {Primative_bounds(g_objs[i]) : i \in 1..Len(g_objs)}
\* the least min corner and the greatest max corner of the objects' bounds
LeastMin(c)    == CHOOSE m \in {b.min[c] : b \in ObjectBounds} :
                      \A b \in ObjectBounds : RLe(m, b.min[c])
GreatestMax(c) == CHOOSE m \in {b.max[c] : b \in ObjectBounds} :
                      \A b \in ObjectBounds : RLe(b.max[c], m)
UnionOfObjects == [min |-> [c \in 1..3 |-> LeastMin(c)],
                   max |-> [c \in 1..3 |-> GreatestMax(c)]]

\* C24: for a non-empty HittableList, bounds().min is the componentwise
\* minimum of the objects' min corners and bounds().max the componentwise
\* maximum of their max corners, and nothing else (in particular not the
\* origin) is included; pushing an object can only grow the bounds.
C24_ListBoundsIsUnion ==
    (GDone("ListBounds") /\ Len(g_objs) > 0) =>
        /\ g_out = UnionOfObjects
        /\ \A obj \in BoundObjects :
              Contains(HittableList_bounds(HittableList_push(g_objs, obj)), g_out)

\* a list whose objects all lie at x >= 1: the bounds start at x = 0, the
\* origin, and are the union of the objects' bounds with the box [0, 0]^3
C24_Divergence ==
    /\ GDone("ListBounds") /\ Len(g_objs) > 0
    /\ RGt(UnionOfObjects.min[1], R(0))
    /\ g_out.min[1] = R(0)
    /\ g_out # UnionOfObjects
    /\ g_out = BoundingBox_union([min |-> VZERO, max |-> VZERO], UnionOfObjects)

\* C25: BoundingBox::union(A, B) contains both arguments: union.min <=
\* min(A.min, B.min) and union.max >= max(A.max, B.max) componentwise; union
\* is commutative, associative and idempotent.
C25_UnionContainsBoth ==
    GDone("Union") =>
        /\ Contains(g_out, g_box) /\ Contains(g_out, g_box2)
        /\ \A c \in 1..3 :
              /\ g_out.min[c] \in {g_box.min[c], g_box2.min[c]}
              /\ g_out.max[c] \in {g_box.max[c], g_box2.max[c]}
        /\ g_out = BoundingBox_union(g_box2, g_box)
        /\ \A b3 \in UnionBoxes :
              BoundingBox_union(g_out, b3)
                  = BoundingBox_union(g_box, BoundingBox_union(g_box2, b3))
        /\ g_box = g_box2 => g_out = g_box
        /\ BoundingBox_union(g_out, g_out) = g_out

\* two boxes neither of which contains the other: the union is larger than both
C25_Witness ==
    /\ GDone("Union")
    /\ ~Contains(g_box, g_box2) /\ ~Contains(g_box2, g_box)
    /\ g_out # g_box /\ g_out # g_box2
    /\ Contains(g_out, g_box) /\ Contains(g_out, g_box2)

-----
(* C3: missing texture keys                                                 *)

MDone(k) == m_in.kind = k /\ m_out # Pending
Missing(key) == ~SlotMap_contains(m_in.textures, key)
\* the same material with its texture key replaced by a key that resolves
WithKey(material, key) ==
    IF material.kind = "DiffuseLight" THEN [material EXCEPT !.emit = key]
    ELSE [material EXCEPT !.albedo = key]
ScatterWithKey(key) ==
    SimpleMaterial_scatter(WithKey(m_in.material, key), m_in.ray, m_in.rec,
                           m_in.textures, m_in.rng)
SinesNegative ==
    SinSign(RMul(m_in.texture.scale, m_in.rec.point[1]))
    * SinSign(RMul(m_in.texture.scale, m_in.rec.point[2]))
    * SinSign(RMul(m_in.texture.scale, m_in.rec.point[3])) < 0

\* C3: a texture key that misses the pool resolves to magenta (1,0,1,1) in
\* the albedo lookup of a Lambertian scatter, in the albedo lookup of a Metal
\* scatter that scatters, in the emit lookup of a DiffuseLight and in the odd
\* and the even branch of a Checker texture; the scatter outcome (Scattered
\* or Absorbed), the outgoing ray and the generator state are those of the
\* same scatter with a key that resolves.
C3_MissingTextureIsMagenta ==
    /\ (MDone("scatter") /\ m_in.material.kind = "Lambertian"
          /\ Missing(m_in.material.albedo)) =>
            /\ m_out.res.tag = "Scattered"
            /\ m_out.res.color = Magenta
            /\ m_out.res.ray_out = ScatterWithKey(1).res.ray_out
            /\ m_out.rng = ScatterWithKey(1).rng
    /\ (MDone("scatter") /\ m_in.material.kind = "Metal"
          /\ Missing(m_in.material.albedo)) =>
            /\ m_out.res.tag = ScatterWithKey(1).res.tag
            /\ m_out.rng = ScatterWithKey(1).rng
            /\ m_out.res.tag = "Scattered" =>
                 /\ m_out.res.color = Magenta
                 /\ m_out.res.ray_out = ScatterWithKey(1).res.ray_out
    /\ (MDone("emit") /\ m_in.material.kind = "DiffuseLight"
          /\ Missing(m_in.material.emit)) =>
            m_out.res = Magenta
    /\ (MDone("value") /\ m_in.texture.kind = "Checker") =>
            /\ (SinesNegative /\ Missing(m_in.texture.odd)) => m_out.res = Magenta
            /\ (~SinesNegative /\ Missing(m_in.texture.even)) => m_out.res = Magenta

\* a Metal scatter whose albedo key is missing and that scatters
C3_Witness ==
    /\ MDone("scatter") /\ m_in.material.kind = "Metal"
    /\ Missing(m_in.material.albedo)
    /\ m_out.res.tag = "Scattered" /\ m_out.res.color = Magenta

-----------------------------------------------------------------------------
(* The optics of a scatter call, from its arguments.                        *)

MUnit   == VNormalize(m_in.ray.direction)
MNormal == m_in.rec.normal
\* the mirror reflection of the incoming direction about the hit normal
MMirror == VSub(MUnit, VScale(RMul(R(2), VDot(MUnit, MNormal)), MNormal))
\* the unit vector of the scatter's random draw
MRandomUnit ==
    VNormalize(VSub(Rng_vec3(m_in.rng), VScale(Frac(1, 2), VONE)))
MDrawn  == Rng_float(m_in.rng)
MEta    == IF m_in.rec.front_face THEN RDiv(R(1), m_in.material.ir)
           ELSE m_in.material.ir
MCos    == Float_min(RNeg(VDot(MUnit, MNormal)), R(1))
MSin    == RSqrt(RSub(R(1), RMul(MCos, MCos)))
TotalInternalReflection == RGt(RMul(MEta, MSin), R(1))
\* Schlick's approximation of the reflectance
MSchlick ==
    LET r0 == RMul(RDiv(RSub(R(1), MEta), RAdd(R(1), MEta)),
                   RDiv(RSub(R(1), MEta), RAdd(R(1), MEta)))
    IN  RAdd(r0, RMul(RSub(R(1), r0), RPowi(RSub(R(1), MCos), 5)))
\* Snell's law: eta * (d + cos n) - sqrt(1 - eta^2 sin^2) n
MRefracted ==
    VSub(VScale(MEta, VAdd(MUnit, VScale(MCos, MNormal))),
         VScale(RSqrt(RSub(R(1), RMul(RMul(MEta, MEta), RMul(MSin, MSin)))),
                MNormal))
AlbedoValue ==
    SimpleTexture_value(m_in.textures[m_in.material.albedo], m_in.rec.u,
                        m_in.rec.v, m_in.rec.point, m_in.textures)

\* C17: a Dielectric scatter is never Absorbed and attenuates by white;
\* when refraction_ratio * sin(theta) > 1 the outgoing direction is the
\* mirror reflection whatever the draw; the refracted direction is taken
\* exactly when refraction is possible and the Schlick reflectance is not
\* greater than the draw.
C17_DielectricScatter ==
    (MDone("scatter") /\ m_in.material.kind = "Dielectric") =>
        /\ m_out.res.tag = "Scattered"
        /\ m_out.res.color = Rgba_ONE
        /\ m_out.res.ray_out.origin = m_in.rec.point
        /\ TotalInternalReflection => m_out.res.ray_out.direction = MMirror
        /\ m_out.res.ray_out.direction =
              IF ~TotalInternalReflection /\ RLe(MSchlick, MDrawn)
              THEN MRefracted ELSE MMirror

\* ior 1.5, a back-face hit beyond the critical angle, and a draw above the
\* Schlick reflectance: the ray is reflected all the same
C17_Witness ==
    /\ MDone("scatter") /\ m_in.material = Dielectric(Frac(3, 2))
    /\ ~m_in.rec.front_face
    /\ TotalInternalReflection
    /\ RLt(MSchlick, MDrawn)
    /\ m_out.res.ray_out.direction = MMirror
    /\ MMirror # MUnit

\* C18: a Metal scatter is Absorbed exactly when the mirror reflection of
\* the incoming direction about the hit normal points into the surface
\* (dot(reflected, normal) <= 0); otherwise it is Scattered from the hit
\* point along reflected + fuzz * random_unit_vector, attenuated by the
\* albedo texture's value.
C18_MetalAbsorbsIffReflectedInward ==
    (MDone("scatter") /\ m_in.material.kind = "Metal") =>
        /\ (m_out.res.tag = "Absorbed") <=> RLe(VDot(MMirror, MNormal), R(0))
        /\ m_out.res.tag = "Scattered" =>
              /\ m_out.res.ray_out.origin = m_in.rec.point
              /\ m_out.res.ray_out.direction =
                    VAdd(MMirror, VScale(m_in.material.fuzz, MRandomUnit))
              /\ ~Missing(m_in.material.albedo) => m_out.res.color = AlbedoValue

\* fuzz 1/2: the mirror reflection leaves the surface (dot = 5/13), the
\* fuzzed direction enters it (dot = 5/13 - 1/2), and the ray is absorbed
C18_Divergence ==
    /\ MDone("scatter") /\ m_in.material.kind = "Metal"
    /\ m_in.material.fuzz = Frac(1, 2)
    /\ RLe(VDot(m_in.ray.direction, MNormal), R(0))
    /\ VDot(MMirror, MNormal) = Frac(5, 13)
    /\ RLt(VDot(VAdd(MMirror, VScale(m_in.material.fuzz, MRandomUnit)), MNormal), R(0))
    /\ m_out.res.tag = "Absorbed"

\* C19: a Lambertian scatter is always Scattered, from the hit point, and
\* attenuated by exactly the albedo texture's value at the hit's (u, v,
\* point); when normal + random_unit_vector is near zero in its three
\* components the outgoing direction is the hit normal.
C19_LambertianScatter ==
    (MDone("scatter") /\ m_in.material.kind = "Lambertian") =>
        /\ m_out.res.tag = "Scattered"
        /\ m_out.res.ray_out.origin = m_in.rec.point
        /\ ~Missing(m_in.material.albedo) => m_out.res.color = AlbedoValue
        /\ m_out.res.ray_out.direction =
              IF near_zero(VAdd(MNormal, MRandomUnit)) THEN MNormal
              ELSE VAdd(MNormal, MRandomUnit)

\* the random unit vector is the opposite of the normal; the albedo is a
\* Checker texture
C19_Witness ==
    /\ MDone("scatter") /\ m_in.material = Lambertian(3)
    /\ VAdd(MNormal, MRandomUnit) = VZERO
    /\ m_out.res.ray_out.direction = MNormal
    /\ m_out.res.color = AlbedoValue
    /\ m_out.res.color # Magenta

\* C20: emission is exclusive to DiffuseLight: its scatter is Absorbed and
\* consumes no draw, its emit is its texture's value at (u, v, point); the
\* emit of Lambertian, Metal and Dielectric is zero.
C20_OnlyLightsEmit ==
    /\ (MDone("scatter") /\ m_in.material.kind = "DiffuseLight") =>
          /\ m_out.res.tag = "Absorbed"
          /\ m_out.rng = m_in.rng
    /\ (MDone("emit") /\ m_in.material.kind = "DiffuseLight"
          /\ ~Missing(m_in.material.emit)) =>
          m_out.res = SimpleTexture_value(m_in.textures[m_in.material.emit],
                          m_in.rec.u, m_in.rec.v, m_in.rec.point, m_in.textures)
    /\ (MDone("emit") /\ m_in.material.kind # "DiffuseLight") =>
          m_out.res = Rgba_ZERO

\* a DiffuseLight scatter: Absorbed, and the generator is where it was
\* (a draw would have moved it)
C20_Witness ==
    /\ MDone("scatter") /\ m_in.material.kind = "DiffuseLight"
    /\ m_out.res.tag = "Absorbed"
    /\ m_out.rng = m_in.rng
    /\ Rng_advance(m_in.rng) # m_in.rng

-----------------------------------------------------------------------------
(* C21: the Checker texture                                                 *)

\* the sign of sin(scale*x) * sin(scale*y) * sin(scale*z) at the input point,
\* from the signs of the three factors: zero if a factor is zero, negative if
\* an odd number of factors is negative
FactorSigns ==
    [i \in 1..3 |-> SinSign(RMul(m_in.texture.scale, m_in.rec.point[i]))]
ProductSign ==
    IF \E i \in 1..3 : FactorSigns[i] = 0 THEN 0
    ELSE IF Cardinality({i \in 1..3 : FactorSigns[i] < 0}) % 2 = 1 THEN -1 ELSE 1
\* the value at the input point of the pool's texture under key
ValueOfKey(key) ==
    SimpleTexture_value(m_in.textures[key], m_in.rec.u, m_in.rec.v,
                        m_in.rec.point, m_in.textures)
IsSolidKey(key) ==
    SlotMap_contains(m_in.textures, key) /\ m_in.textures[key].kind = "Solid"
\* other texture coordinates than the input's
OtherUVs == {R(0), Frac(1, 4), R(1), NaN}

\* C21: a Checker texture evaluated at p returns the value of its odd texture
\* when sin(scale*p.x)*sin(scale*p.y)*sin(scale*p.z) is negative and the value
\* of its even texture when the product is positive or exactly zero; the
\* result is the same for every u and v; with odd and even resolving to two
\* different solid colours the result is one of those two colours.
C21_CheckerSelectsBySign ==
    (MDone("value") /\ m_in.texture.kind = "Checker") =>
        /\ (ProductSign < 0 /\ SlotMap_contains(m_in.textures, m_in.texture.odd)) =>
              m_out.res = ValueOfKey(m_in.texture.odd)
        /\ (ProductSign >= 0 /\ SlotMap_contains(m_in.textures, m_in.texture.even)) =>
              m_out.res = ValueOfKey(m_in.texture.even)
        /\ \A u, v \in OtherUVs :
              SimpleTexture_value(m_in.texture, u, v, m_in.rec.point, m_in.textures)
                  = m_out.res
        /\ (/\ IsSolidKey(m_in.texture.odd) /\ IsSolidKey(m_in.texture.even)
            /\ m_in.textures[m_in.texture.odd].color
                   # m_in.textures[m_in.texture.even].color) =>
              /\ m_out.res \in {m_in.textures[m_in.texture.odd].color,
                                m_in.textures[m_in.texture.even].color}
              /\ (m_out.res = m_in.textures[m_in.texture.odd].color)
                     <=> (ProductSign < 0)

\* exactly one factor is negative: the product is negative and the odd
\* colour, different from the even one, comes back
C21_Witness ==
    /\ MDone("value") /\ m_in.texture.kind = "Checker"
    /\ FactorSigns[1] < 0 /\ FactorSigns[2] > 0 /\ FactorSigns[3] > 0
    /\ IsSolidKey(m_in.texture.odd) /\ IsSolidKey(m_in.texture.even)
    /\ m_out.res = m_in.textures[m_in.texture.odd].color
    /\ m_out.res # m_in.textures[m_in.texture.even].color
-----------------------------------------------------------------------------
(* Claims about World::ray_color, checked under SpecTrace.                  *)

T_MIN == Frac(1, 1000)

\* the hit of object i alone, searched in [0.001, +infinity)
AloneHit(objs, ray, i) == Primative_hit(objs[i], ray, T_MIN, INFINITY)
\* the closest hit over all objects, Miss if there is none
ClosestHit(objs, ray) ==
    LET hitters == {i \in 1..Len(objs) : AloneHit(objs, ray, i).tag = "Hit"}
    IN  IF hitters = {} THEN Miss
        ELSE AloneHit(objs, ray,
                 CHOOSE i \in hitters : \A j \in hitters :
                     RLe(AloneHit(objs, ray, i).rec.time, AloneHit(objs, ray, j).rec.time))

\* the reference recursion of the specification, for scenes whose material
\* keys resolve
RECURSIVE ReferenceColor(_, _, _, _)
ReferenceColor(w, ray, rng, depth) ==
    IF depth = 0 THEN [color |-> Rgba_ZERO, rng |-> rng]
    ELSE
    LET h == ClosestHit(w.hittables, ray)
    IN  IF h.tag = "Miss" THEN [color |-> Rgba_ONE, rng |-> rng]
        ELSE
        LET m       == w.materials[h.rec.material]
            emitted == SimpleMaterial_emit(m, h.rec.u, h.rec.v, h.rec.point, w.textures)
            s       == SimpleMaterial_scatter(m, ray, h.rec, w.textures, rng)
        IN  IF s.res.tag = "Absorbed" THEN [color |-> emitted, rng |-> s.rng]
            ELSE LET rest == ReferenceColor(w, s.res.ray_out, s.rng, depth - 1)
                 IN  [color |-> Rgba_add(emitted, Rgba_mul(s.res.color, rest.color)),
                      rng |-> rest.rng]

\* C2 (as claimed): a hit whose material key does not resolve is not fatal:
\* no panic state is reachable; the evaluation continues with magenta.
C2_MissingMaterialNonFatal == rc_pc # "panicked"

\* the panic: the call hit a sphere whose material key is not in the pool
C2_Divergence ==
    /\ rc_pc = "panicked"
    /\ ClosestHit(world.hittables, rc_cur.ray).tag = "Hit"
    /\ ~SlotMap_contains(world.materials,
                         ClosestHit(world.hittables, rc_cur.ray).rec.material)
    /\ rc_calls = 0

\* C4: a call of ray_color that returns, returns the value of the reference
\* recursion: black at depth 0, white on a miss in [0.001, +inf), emitted on
\* absorption and emitted + attenuation * ray_color(ray_out, depth - 1) on a
\* scatter; it also leaves the generator in the state the reference leaves.
C4_RayColorIsReference ==
    rc_pc = "done" =>
        /\ rc_val = ReferenceColor(world, rc_ray0, rc_rng0, rc_depth0).color
        /\ rc_rng = ReferenceColor(world, rc_ray0, rc_rng0, rc_depth0).rng
        /\ World_ray_color(world, rc_ray0, rc_rng0, rc_depth0) =
               [color |-> rc_val, rng |-> rc_rng]

\* a returned call that scattered at least twice off an emitting or
\* attenuating surface
C4_Witness ==
    /\ rc_pc = "done" /\ rc_calls >= 2
    /\ rc_val # Rgba_ZERO /\ rc_val # Rgba_ONE

\* the number of steps the call can still take, at most
Remaining ==
    CASE rc_pc = "call" -> 2 * rc_cur.depth + Len(rc_stack) + 2
      [] rc_pc = "ret"  -> Len(rc_stack) + 1
      [] OTHER          -> 0
StepHandled(step) ==
    /\ step.tag \in {"Miss", "Panic", "Hit"}
    /\ step.tag = "Hit" => step.scatter.res.tag \in {"Scattered", "Absorbed"}
C5_Budget ==
    /\ rc_queries <= rc_depth0
    /\ rc_calls <= rc_depth0
    /\ rc_cur.depth = rc_depth0 - rc_calls
    /\ rc_cur.depth >= 0
    /\ \A i \in 1..Len(rc_stack) : rc_stack[i].depth = rc_depth0 - (i - 1)
    /\ rc_pc = "call" => Len(rc_stack) = rc_calls
    /\ Active => StepHandled(CurStep)

\* C5: depth is a hard budget: a call ray_color(ray, d) makes at most d
\* intersection queries and at most d nested calls, the depth argument of
\* each nested call is one less than its caller's and never drops below 0,
\* and the call terminates: every outcome of the query and of the
\* scatter is one that a step handles, and every step lowers the bound
\* Remaining on the steps left.
C5_DepthIsHardBudget ==
    /\ []C5_Budget
    /\ [][Remaining' < Remaining]_vars

\* a call in a closed Lambertian sphere that used its whole budget
C5_Witness ==
    /\ rc_pc = "done"
    /\ rc_depth0 = MaxDepth
    /\ rc_calls = rc_depth0 /\ rc_queries = rc_depth0
    /\ rc_cur.depth = 0

-----------------------------------------------------------------------------
(* Claims about the renderers, checked under SpecRender.                    *)

RECURSIVE SumOfSamples(_, _)
\* v_1 + ... + v_n of channel idx over the first n frames
SumOfSamples(idx, n) ==
    IF n = 0 THEN R(0) ELSE RAdd(SumOfSamples(idx, n - 1), frames[n][idx])

C11_GammaIsSquareRoot ==
    r_pc = "ready" =>
        \A n \in 1..Len(frames) : \A idx \in 1..Len(frames[n]) :
            /\ RGe(frames[n][idx], R(0))
            /\ RMul(frames[n][idx], frames[n][idx]) = linears[n][idx]

\* a sample_color channel of 1/2 was accumulated as 1/4, its square
C11_Divergence ==
    /\ r_pc = "ready" /\ num_samples = 1
    /\ \E idx \in 1..Len(frames[1]) :
          /\ linears[1][idx] = Frac(1, 2)
          /\ frames[1][idx] = Frac(1, 4)
          /\ image.data[idx] = Frac(1, 4)

\* the pixel_rgb of pixel k (row-major, from 0) in a frame of samples
PixelOf(frame, k) == [c \in 1..4 |-> frame[4 * k + c]]

\* a ProgressiveRenderer fed the samples of one frame, pixel by pixel
RECURSIVE ProgressiveFeed(_, _, _)
ProgressiveFeed(self, frame, k) ==
    IF k = self.width * self.height
    THEN [self EXCEPT !.num_samples = @ + 1]
    ELSE ProgressiveFeed(
             ProgressiveRenderer_blend(self, k % self.width, k \div self.width,
                                       PixelOf(frame, k)),
             frame, k + 1)

\* a ParallelRenderer fed the samples of one frame as its img_data
ParallelFeed(self, frame) ==
    ParallelRenderer_merge(self, [data |-> frame, linear |-> frame]).self

\* both renderers, new with this renderer's dimensions and depth, after the
\* first n recorded frames
RECURSIVE ProgressiveAfter(_)
ProgressiveAfter(n) ==
    IF n = 0 THEN Renderer_new(width, height, max_ray_depth)
    ELSE ProgressiveFeed(ProgressiveAfter(n - 1), frames[n], 0)
RECURSIVE ParallelAfter(_)
ParallelAfter(n) ==
    IF n = 0 THEN Renderer_new(width, height, max_ray_depth)
    ELSE ParallelFeed(ParallelAfter(n - 1), frames[n])

\* C12: fed the same per-pixel samples frame by frame, a ProgressiveRenderer
\* and a ParallelRenderer of the same dimensions and depth hold the same
\* num_samples and the same image after every frame; the renderer that
\* produced the frames holds that image too.
C12_SameAccumulator ==
    r_pc = "ready" =>
        /\ \A n \in 0..Len(frames) : ProgressiveAfter(n) = ParallelAfter(n)
        /\ Self = ParallelAfter(Len(frames))

\* three frames, not all alike, accumulated by a ParallelRenderer
C12_Witness ==
    /\ r_pc = "ready" /\ variant = "parallel" /\ num_samples = 3
    /\ frames[1] # frames[2] /\ frames[2] # frames[3]
    /\ image = ProgressiveAfter(3).image
    /\ image.data # frames[3]

\* C14: across the render calls on one renderer of either kind the image
\* buffer is never replaced or reallocated (it is always the Vec that
\* Image::new allocated, updated in place) and its length stays
\* width*height*4.
C14_BufferNeverReplaced ==
    /\ image_buf = 0
    /\ Len(image.data) = width * height * 4

\* the first render call of a ParallelRenderer moved img_data into image.data
C14_Divergence ==
    /\ variant = "parallel" /\ r_pc = "ready" /\ num_samples = 1
    /\ image_buf = 1
    /\ Len(image.data) = width * height * 4

\* The sequential pass written out by stream position: pixel k of the
\* row-major order is column k % width of row k \div width; it draws
\* jitter-x, then jitter-y, and hands the rest of the stream to ray_color.
PixelAt(s, k) ==
    LET jx == Rng_float(s)
        jy == Rng_float(Rng_advance(s))
        u  == RDiv(RAdd(R(k % width), jx), R(width - 1))
        v  == RDiv(RAdd(R(k \div width), jy), R(height - 1))
    IN  World_ray_color(scene.world, BasicCamera_ray(scene.sampler, u, v),
                        Rng_advance(Rng_advance(s)), max_ray_depth)

\* the stream as each pixel finds it: pixel k starts where pixel k - 1 ended
RECURSIVE StreamsFrom(_, _, _)
StreamsNext(s, k, acc, c) ==
    IF IsPanic(c) THEN acc ELSE StreamsFrom(c.rng, k + 1, Append(acc, s))
StreamsFrom(s, k, acc) ==
    IF k = width * height THEN acc ELSE StreamsNext(s, k, acc, PixelAt(s, k))

PixelColor(streams, k) == PixelAt(streams[k + 1], k)

\* the frame of samples the pass over stream rng yields; a pass that
\* panicked at some pixel yields no frame
SequentialFrame(rng) ==
    LET streams == StreamsFrom(rng, 0, <<>>)
    IN  IF Len(streams) < width * height THEN <<>>
        ELSE [idx \in 1..(width * height * 4) |->
                LET c == PixelColor(streams, (idx - 1) \div 4).color[((idx - 1) % 4) + 1]
                IN  RMul(c, c)]

\* C16: the sequential renderer is deterministic: the samples of a frame are
\* a function of the scene, the dimensions, the depth and the stream handed
\* to render, consumed pixel by pixel in row-major order, jitter-x, jitter-y,
\* then the draws of ray_color; the image is the mean of the frames and
\* num_samples their number, so two ProgressiveRenderers given the same
\* streams hold the same image and num_samples after every frame.
C16_SequentialDeterminism ==
    (variant = "progressive" /\ r_pc = "ready" /\ num_samples >= 1) =>
        /\ frames[num_samples] = SequentialFrame(r_last)
        /\ num_samples = Len(frames)
        /\ \A idx \in 1..Len(image.data) :
              image.data[idx] = RDiv(SumOfSamples(idx, num_samples), R(num_samples))

\* a second frame whose pixels differ from one another
C16_Witness ==
    /\ variant = "progressive" /\ r_pc = "ready" /\ num_samples = 2
    /\ width = 3
    /\ frames[2] = SequentialFrame(r_last)
    /\ \E k \in 1..5 : frames[2][1] # frames[2][4 * k + 1]

-----------------------------------------------------------------------------
(* Claims about the parallel phase, checked under SpecParallel.             *)

InParallelPhase == r_pc = "fork"
AllCollected ==
    /\ \A j \in Rows : p_rows[j].st = "done" /\ Len(p_rows[j].acc.data) = width * 4
    /\ Len(p_img.data) = width * height * 4

\* the image is the average of the frames completed before this call
HoldsPreviousAverage ==
    /\ num_samples = Len(frames)
    /\ \A idx \in 1..Len(image.data) :
          image.data[idx] = IF num_samples = 0 THEN R(0)
                            ELSE RDiv(SumOfSamples(idx, num_samples), R(num_samples))

\* what one step may do to the accumulation buffer and to num_samples; the
\* scanline tasks exist, and take their steps, in the parallel phase only
C13_Step ==
    /\ InParallelPhase => image' = image /\ num_samples' = num_samples
    /\ image' # image =>
          /\ r_pc = "collected" /\ r_pc' = "merged"
          /\ AllCollected
          /\ p_rows' = p_rows /\ num_samples' = num_samples
    /\ num_samples' # num_samples =>
          /\ r_pc = "merged" /\ r_pc' = "ready"
          /\ num_samples' = num_samples + 1
          /\ image' = image

\* C13: in ParallelRenderer::render, for every interleaving of the scanline
\* tasks, the image holds the average of the previous frames for the whole
\* parallel phase; no step of a task changes it; it changes only in the
\* orchestrating thread's merge, after the samples of all width*height
\* pixels are collected; num_samples is incremented only after the merge.
C13_WorkersNeverTouchImage ==
    /\ [](r_pc \in {"fork", "collected"} => HoldsPreviousAverage)
    /\ [][C13_Step]_vars

\* the tasks are interleaved in the second frame: row 1 is done, row 0 is in
\* the middle of its row, and the image still holds the first frame
C13_Witness ==
    /\ InParallelPhase /\ num_samples = 1
    /\ p_rows[1].st = "done" /\ p_rows[0].st = "running" /\ p_rows[0].i = 1
    /\ image.data = frames[1]
    /\ p_rows[1].acc.data # <<>>
    /\ \E idx \in 1..Len(image.data) : image.data[idx] # R(0)

-----------------------------------------------------------------------------
(* C28: the layout of the collected frame                                   *)

\* the row-major offset of pixel (i, j), as Image::set_pixel_color and
\* get_pixel_color compute it
PixelIndex(i, j) == width * j * 4 + i * 4
\* pixel_rgb of every pixel of row j: the pass over the row from the
\* generator state its task started with
RowSamples(j) ==
    ParallelRenderer_row(Self, scene, j, 0, p_rows[j].rng0, Renderer_none).data
SampleOf(i, j) == [c \in 1..4 |-> RowSamples(j)[4 * i + c]]
Pixels == {<<i, j>> : i \in 0..(width - 1), j \in 0..(height - 1)}

\* img_data holds width*height*4 values, those of pixel (i, j) at offsets
\* 4*(j*width + i) .. 4*(j*width + i) + 3
CollectedInPlace ==
    /\ Len(p_img.data) = width * height * 4
    /\ \A px \in Pixels :
          /\ PixelIndex(px[1], px[2]) = 4 * (px[2] * width + px[1])
          /\ \A c \in 1..4 :
                p_img.data[PixelIndex(px[1], px[2]) + c] = SampleOf(px[1], px[2])[c]

\* the merge step blends the sample of each pixel into that pixel
C28_Step ==
    (r_pc = "collected" /\ r_pc' = "merged") =>
        \A px \in Pixels :
            Image_get_pixel_color(image', px[1], px[2]) =
                IF num_samples = 0 THEN SampleOf(px[1], px[2])
                ELSE [c \in 1..4 |->
                        Renderer_mean(Image_get_pixel_color(image, px[1], px[2])[c],
                                      num_samples, SampleOf(px[1], px[2])[c])]

\* C28: for every scheduling and completion order of the scanline tasks the
\* collected frame has length width*height*4 and the channels of the sample
\* of pixel (i, j) sit at offsets 4*(j*width + i) .. + 3, the index
\* Image::get_pixel_color and set_pixel_color use; each sample is merged into
\* the running average of its own pixel, none is dropped or duplicated.
C28_RowMajorCollect ==
    /\ [](r_pc \in {"collected", "merged"} => CollectedInPlace)
    /\ [][C28_Step]_vars

\* a collected second frame of a 3x2 image whose two rows ran on different
\* generator states and differ from each other
C28_Witness ==
    /\ r_pc = "collected" /\ num_samples = 1 /\ width = 3
    /\ p_rows[0].rng0 # p_rows[1].rng0
    /\ RowSamples(0) # RowSamples(1)
    /\ \E i \in 1..2 : SampleOf(i, 0) # SampleOf(0, 0)
    /\ CollectedInPlace

-----------------------------------------------------------------------------
(* Claims about the application's renderer, checked under SpecApp.          *)

\* the renderer holds the average of the frames rendered since it was made
C15_OnlyOwnSamples ==
    r_pc = "ready" =>
        /\ HoldsPreviousAverage
        /\ Len(image.data) = width * height * 4
        /\ max_ray_depth = APP_MAX_RAY_DEPTH

C15_Step ==
    /\ resizes' # resizes =>
          /\ Self' = Renderer_new(width', height', APP_MAX_RAY_DEPTH)
          /\ num_samples' = 0
          /\ Len(image'.data) = width' * height' * 4
          /\ \A idx \in 1..Len(image'.data) : image'.data[idx] = R(0)
    /\ resizes' = resizes =>
          /\ width' = width /\ height' = height
          /\ num_samples' >= num_samples
          /\ r_pc' = "ready" => num_samples' = num_samples + 1

\* C15: there is no in-place resize: after every resize event the
\* application holds a renderer equal to new(new_width, new_height, 5)
\* (num_samples = 0, an all-zero image of new_width*new_height*4 floats), so
\* every image returned later is the average of the frames rendered after
\* the resize only; between resizes num_samples only grows, by one per
\* render call.
C15_ResizeStartsOver ==
    /\ []C15_OnlyOwnSamples
    /\ [][C15_Step]_vars

\* two resize events have happened and one frame was rendered since
C15_Witness ==
    /\ resizes = 2 /\ r_pc = "ready" /\ num_samples = 1 /\ width = 3
    /\ image.data = frames[1]
    /\ \E idx \in 1..Len(image.data) : image.data[idx] # R(0)
-----------------------------------------------------------------------------
(* C27: nested texture evaluation, checked under SpecTextureLive.           *)

PoolSize == Cardinality(DOMAIN tx_pool)
\* the keys a texture refers to that resolve
Edges(k) ==
    IF tx_pool[k].kind = "Checker"
    THEN {tx_pool[k].odd, tx_pool[k].even} \cap DOMAIN tx_pool
    ELSE {}
RECURSIVE ReachFrom(_, _)
ReachFrom(S, n) ==
    IF n = 0 THEN S ELSE ReachFrom(S \cup UNION {Edges(k) : k \in S}, n - 1)
\* the keys reachable from k by one or more references
Reachable(k) == ReachFrom(Edges(k), PoolSize)
\* no texture reachable from the evaluated one refers back to itself
TexAcyclic == \A k \in {tx_root} \cup Reachable(tx_root) : k \notin Reachable(k)

\* the keys of the textures the evaluation at tx_p calls, in order, cut after
\* n nested calls
RECURSIVE SelectedPath(_, _)
SelectedPath(path, n) ==
    LET k == path[Len(path)]
    IN  IF n = 0 \/ tx_pool[k].kind # "Checker"
           \/ ~SlotMap_contains(tx_pool, Checker_branch(tx_pool[k], tx_p))
        THEN path
        ELSE SelectedPath(Append(path, Checker_branch(tx_pool[k], tx_p)), n - 1)
\* the branch selected at tx_p leads back to a texture already being evaluated
SelectedCycle ==
    LET path == SelectedPath(<<tx_root>>, PoolSize)
    IN  \E a, b \in 1..Len(path) : a < b /\ path[a] = path[b]

\* a step that changes the stack enters exactly the selected branch
C27_Step ==
    (tx_cur' # tx_cur \/ tx_depth' # tx_depth) =>
        /\ tx_cur.kind = "Checker"
        /\ tx_cur' = tx_pool[Checker_branch(tx_cur, tx_p)]
        /\ tx_depth' = tx_depth + 1
        /\ tx_pc' = "call"

\* C27: the evaluation of a texture terminates for every point whenever the
\* Checker references reachable from it form no cycle; it follows exactly
\* one branch per Checker level, so the nesting depth is at most the number
\* of textures in the pool; cycles are not detected: when the selected
\* branch leads back to a texture being evaluated no value is ever returned.
C27_TerminatesIffAcyclic ==
    /\ [](TexAcyclic => tx_depth <= PoolSize)
    /\ []((TexAcyclic /\ tx_pc = "done") =>
             tx_val = SimpleTexture_value(tx_pool[tx_root], R(0), R(0), tx_p, tx_pool))
    /\ [][C27_Step]_vars
    /\ [](SelectedCycle => tx_pc # "done")
    /\ (TexAcyclic ~> tx_pc = "done")

\* a chain of three Checkers and a Solid, evaluated to its end
C27_Witness ==
    /\ TexAcyclic /\ tx_pc = "done"
    /\ tx_depth = 4 /\ PoolSize = 4
    /\ tx_pool[tx_root].kind = "Checker" /\ tx_cur.kind = "Solid"
    /\ tx_val = tx_cur.color
-----------------------------------------------------------------------------
(* C30: the permutation tables, checked under SpecNoise.                    *)

IsPermutation(t) ==
    /\ Len(t) = POINT_COUNT
    /\ {t[k] : k \in 1..Len(t)} = 0..(POINT_COUNT - 1)
Changed(t, u) == {k \in 1..Len(t) : t[k] # u[k]}

\* an iteration of permute leaves the table as it is or exchanges two entries
C30_Step ==
    (n_pc = "permute" /\ n_p' # n_p) =>
        /\ Cardinality(Changed(n_p, n_p')) = 2
        /\ \A a, b \in Changed(n_p, n_p') :
              a # b => n_p'[a] = n_p[b] /\ n_p'[b] = n_p[a]

\* C30: for every random stream each table returned by generate_perm is a
\* permutation of 0..255: permute only exchanges entries, so every value
\* occurs exactly once after any number of iterations; every lattice index
\* (i + d) & 255 and every index perm_x[..] ^ perm_y[..] ^ perm_z[..]
\* computed in noise lies in 0..255, for points with negative coordinates
\* too: no table access is out of bounds.
C30_PermTablesInBounds ==
    /\ [](n_pc = "permute" => IsPermutation(n_p))
    /\ [](\A t \in 1..Len(n_tables) : IsPermutation(n_tables[t]))
    /\ [](\A a \in n_access :
             /\ a.ix \in 0..(POINT_COUNT - 1)
             /\ a.iy \in 0..(POINT_COUNT - 1)
             /\ a.iz \in 0..(POINT_COUNT - 1)
             /\ a.read
             /\ a.iv \in 0..(POINT_COUNT - 1))
    /\ [][C30_Step]_vars

\* noise at a point with negative coordinates, on tables that are not the
\* identity: the lattice index of -1 is 255
C30_Witness ==
    /\ n_pc = "sampled"
    /\ RLt(n_point[1], R(0))
    /\ \A t \in 1..3 : n_tables[t] # Perm_identity
    /\ \E a \in n_access : a.ix = POINT_COUNT - 1 /\ a.corner[1] = 0
    /\ \E a, b \in n_access : a.iv # b.iv
    /\ Cardinality(n_access) = 8
-----------------------------------------------------------------------------
(* GpuState: the two textures take turns                                    *)

\* the command buffers submitted since the textures were created use them
\* by the parity of their frame_number, and each compute pass reads what
\* the one submitted before it wrote
PingPong ==
    \A k \in 1..Len(gp_submitted) :
        LET s == gp_submitted[k]
            f == s.frame_number
        IN  /\ s.compute.bind_group.output = gp_views[f % 2]
            /\ s.compute.bind_group.input = gp_views[(f + 1) % 2]
            /\ s.render.bind_group.texture = gp_views[f % 2]
            /\ k > 1 =>
                 /\ s.compute.bind_group.input
                        = gp_submitted[k - 1].compute.bind_group.output
                 /\ f = gp_submitted[k - 1].frame_number + 1

\* a step of render: frame_number moves by one exactly when a command buffer
\* is submitted, which is exactly when the call returns Ok; a resize leaves
\* frame_number alone
C29_Step ==
    IF gp_made' = gp_made
    THEN \/ /\ gp_result' = "Ok"
            /\ gp_frame_number' = gp_frame_number + 1
            /\ Len(gp_submitted') = Len(gp_submitted) + 1
            /\ gp_submitted'[Len(gp_submitted')].frame_number = gp_frame_number
         \/ /\ gp_result' # "Ok"
            /\ gp_frame_number' = gp_frame_number
            /\ gp_submitted' = gp_submitted
    ELSE gp_frame_number' = gp_frame_number

\* C29: between two resizes, the compute pass of frame_number f writes
\* texture f mod 2 and reads texture (f + 1) mod 2, the render pass of the
\* same call shows texture f mod 2, each submitted compute pass reads the
\* texture the previous submitted one wrote, and a call that fails to
\* acquire a frame submits nothing and leaves frame_number unchanged.
C29_PingPongOrdering == []PingPong /\ [][C29_Step]_vars

\* three command buffers submitted to textures made by a resize, the first
\* with an odd frame_number, and then a call that failed
C29_Witness ==
    /\ Len(gp_submitted) >= 3
    /\ gp_made > 2
    /\ gp_submitted[1].frame_number % 2 = 1
    /\ gp_result \in SwapChainFrames \ {"Ok"}
-----------------------------------------------------------------------------
(* The image after many calls                                               *)

LongPixel(k) ==
    Image_get_pixel_color(lr_self.image, (k - 1) % lr_self.width,
                          (k - 1) \div lr_self.width)
F32_valid(a) == a = F32_ZERO \/ (a[1] >= 2 ^ 23 /\ a[1] < 2 ^ 24)

\* C23: with Lambertian spheres over non-negative solid textures and
\* max_ray_depth = 1, after any number of render calls every value of the
\* image is a number >= 0, a pixel whose camera ray missed in every call
\* holds exactly (1,1,1,1), and a pixel whose ray hit in every call holds
\* exactly zero in all four channels.
C23_BackgroundExact ==
    lr_self.num_samples > 0 =>
        \A k \in DOMAIN lr_seen :
            /\ \A c \in 1..4 : F32_valid(LongPixel(k)[c])
            /\ lr_seen[k] = {"miss"} => LongPixel(k) = <<F32_ONE, F32_ONE, F32_ONE, F32_ONE>>
            /\ lr_seen[k] = {"hit"} => LongPixel(k) = <<F32_ZERO, F32_ZERO, F32_ZERO, F32_ZERO>>

\* after 41 calls a pixel whose ray missed every time holds less than 1
C23_Divergence ==
    /\ lr_self.num_samples = 41
    /\ \E k \in DOMAIN lr_seen :
         /\ lr_seen[k] = {"miss"}
         /\ LongPixel(k) = [c \in 1..4 |-> <<2 ^ 24 - 1, -24>>]
    /\ \E k \in DOMAIN lr_seen :
         /\ lr_seen[k] = {"hit"}
         /\ LongPixel(k) = [c \in 1..4 |-> F32_ZERO]
=============================================================================
